---------------------------- MODULE Spec2Model ----------------------------
(***************************************************************************)
(* Model of the contact-data cleaning pass (api/internal/service/          *)
(* validation.go) and of the lead scoring rubric (api/internal/service/    *)
(* scoring/scoring.go).                                                    *)
(*                                                                         *)
(* A Go string is a sequence of one-character strings, so that trimming,   *)
(* case folding, splitting, prefix and suffix tests are computed the way   *)
(* the code computes them.  A Go map is a function over the set of its     *)
(* keys; ranging over a map visits the keys in an arbitrary order, which   *)
(* an action chooses.                                                      *)
(***************************************************************************)
EXTENDS Integers, Sequences, FiniteSets, TLC

VARIABLES
    features,       \* scoring: the LeadFeatures value handed to ComputeScore
    scoreResults,   \* scoring: the ScoreResult values returned so far
    socialPc,       \* validateSocials: "idle", "ranging" (in the loop over the map) or "done"
    visited,        \* validateSocials: the labels of the input map ranged over so far
    cur,            \* validateSocials: the label whose candidates are being tried
    used,           \* validateSocials: the platforms already resolved
    socialLinks,    \* validateSocials: the SocialLinks being filled
    lastProbe,      \* validateSocials: the latest cleanSocialLink call and its HTTP requests
    resolver,       \* cleanEmails: the DNS resolver the DataProcessor was built with
    emailCalls,     \* cleanEmails: the calls made so far, each with input, output and lookups
    phoneCalls,     \* normalizePhones: the calls made so far, each with input and output
    addressCalls,   \* selectBestAddress: the calls made so far, each with input and output
    contactCalls,   \* sanitizeContactForm: the calls made so far, each with input, output and requests
    processCalls,   \* Process: the calls made so far, each with input, error, output, lookups and requests
    domainCalls,    \* highQualityDomain: the calls made so far, each with input and output
    socialCalls,    \* validateSocials: the whole calls made so far, each with input, client and output
    emailRuns,      \* cleanEmails: the calls in progress on one DataProcessor, each with its own locals
    processRun,     \* Process: one call taken step by step, with the state of the caller's context
    rateCfg,        \* ScrapeRateLimiter: the RateLimitConfig the router was registered with
    limiterTokens,       \* ScrapeRateLimiter: the tokens left in the limiter of each route
    mu,             \* ScrapeRateLimiter: the request that holds the mutex of each route, or 0
    requests,       \* ScrapeRateLimiter: each request's route, position and response
    refilled        \* ScrapeRateLimiter: a limiter has gained a token since the start

scoreVars == <<features, scoreResults>>
socialVars == <<socialPc, visited, cur, used, socialLinks, lastProbe>>
emailVars == <<resolver, emailCalls>>
cleanVars == <<phoneCalls, addressCalls, contactCalls, processCalls>>
limitVars == <<rateCfg, limiterTokens, mu, requests, refilled>>
runVars == <<domainCalls, socialCalls, emailRuns, processRun, limitVars>>
vars == <<scoreVars, socialVars, emailVars, cleanVars, runVars>>

(***************************************************************************)
(* Bounds of the model.                                                    *)
(***************************************************************************)
MaxSocialKeys == 2      \* entries of LeadFeatures.Socials
MaxCandidates == 2      \* candidate URLs of one label of RawEnrichedData.SocialLinks
MaxEmails == 3          \* entries of RawEnrichedData.Emails
MaxSecondary == 2       \* entries of RawEnrichedData.SecondaryPhones
MaxAddresses == 3       \* entries of RawEnrichedData.Addresses
MaxOverlap == 2         \* calls of cleanEmails in progress at once
MaxRequests == 2        \* RateLimitConfig.Requests
MaxArrivals == 3        \* requests that reach the router

(***************************************************************************)
(* package strings / unicode                                               *)
(***************************************************************************)
UpperLetters == <<"A","B","C","D","E","F","G","H","I","J","K","L","M","N","O","P","Q","R","S","T","U","V","W","X","Y","Z">>
LowerLetters == <<"a","b","c","d","e","f","g","h","i","j","k","l","m","n","o","p","q","r","s","t","u","v","w","x","y","z">>
DigitChars == {"0","1","2","3","4","5","6","7","8","9"}
SpaceChars == {" ", "\t", "\n", "\r"}

Range(s) == {s[i] : i \in DOMAIN s}
UpperSet == Range(UpperLetters)
LowerSet == Range(LowerLetters)

IsUpper(c) == c \in UpperSet
IsLower(c) == c \in LowerSet
IsLetter(c) == IsUpper(c) \/ IsLower(c)
IsDigit(c) == c \in DigitChars

ToLowerChar(c) ==
    IF IsUpper(c)
    THEN LowerLetters[CHOOSE i \in DOMAIN UpperLetters : UpperLetters[i] = c]
    ELSE c

ToLower(s) == [i \in DOMAIN s |-> ToLowerChar(s[i])]

MinOf(S) == CHOOSE i \in S : \A j \in S : i <= j
\* (the test on i + 1 is implied by the other one, and is the cheaper one)
MaxOf(S) == CHOOSE i \in S : (i + 1) \notin S /\ \A j \in S : i >= j

\* s[from..to], empty when from > to
Slice(s, from, to) == IF from > to THEN <<>> ELSE SubSeq(s, from, to)

\* s from its first to its last position in keep
SliceKept(s, keep) == IF keep = {} THEN <<>> ELSE Slice(s, MinOf(keep), MaxOf(keep))

\* strings.Trim(s, cutset)
Trim(s, cutset) == SliceKept(s, {i \in DOMAIN s : s[i] \notin cutset})

TrimSpace(s) == Trim(s, SpaceChars)

HasPrefix(s, p) == Len(s) >= Len(p) /\ Slice(s, 1, Len(p)) = p
HasSuffix(s, p) == Len(s) >= Len(p) /\ Slice(s, Len(s) - Len(p) + 1, Len(s)) = p
TrimPrefix(s, p) == IF HasPrefix(s, p) THEN Slice(s, Len(p) + 1, Len(s)) ELSE s

FirstOrZero(S) == IF S = {} THEN 0 ELSE MinOf(S)
LastOrZero(S) == IF S = {} THEN 0 ELSE MaxOf(S)

\* position of the first occurrence of sub in s, 0 when there is none
Index(s, sub) ==
    FirstOrZero({i \in 1..(Len(s) - Len(sub) + 1) : Slice(s, i, i + Len(sub) - 1) = sub})

Contains(s, sub) == Index(s, sub) # 0

\* strings.Count(s, c) for a one-character c
Count(s, c) == Cardinality({i \in DOMAIN s : s[i] = c})

\* s cut around the n characters at position i (strings.Cut); i = 0: not found
CutAt(s, i, n) ==
    [found  |-> i # 0,
     before |-> IF i = 0 THEN s ELSE Slice(s, 1, i - 1),
     after  |-> IF i = 0 THEN <<>> ELSE Slice(s, i + n, Len(s))]

Cut(s, sep) == CutAt(s, Index(s, sep), Len(sep))

\* strings.FieldsFunc(s, f) with f(r) == r \in seps: the maximal runs of
\* characters outside seps, in order; never an empty field
RECURSIVE FieldsFrom(_, _, _)
FieldsFrom(s, seps, first) ==
    IF first = 0 THEN <<>>
    ELSE LET stop == FirstOrZero({i \in first..Len(s) : s[i] \in seps})
         IN  IF stop = 0 THEN <<Slice(s, first, Len(s))>>
             ELSE <<Slice(s, first, stop - 1)>>
                      \o FieldsFrom(s, seps,
                                    FirstOrZero({i \in stop..Len(s) : s[i] \notin seps}))

FieldsFunc(s, seps) == FieldsFrom(s, seps, FirstOrZero({i \in DOMAIN s : s[i] \notin seps}))

\* strings.Split(s, sep): empty fields are kept
RECURSIVE SplitCut(_, _)
SplitCut(c, sep) ==
    IF ~c.found THEN <<c.before>> ELSE <<c.before>> \o SplitCut(Cut(c.after, sep), sep)

Split(s, sep) == SplitCut(Cut(s, sep), sep)

\* every arrangement of the elements of a finite set: the orders in which
\* ranging over a Go map may visit its keys
Orders(S) == {o \in [1..Cardinality(S) -> S] : \A i, j \in DOMAIN o : o[i] = o[j] => i = j}

(***************************************************************************)
(* package net/url, as far as the code relies on it                        *)
(***************************************************************************)
\* the authority of a URL: the user information before the last "@", the
\* host after it; a space in the authority is a parse error
UrlAuthority(auth, at) ==
    [err  |-> \E i \in DOMAIN auth : auth[i] \in SpaceChars,
     User |-> Slice(auth, 1, at - 1),
     Host |-> Slice(auth, at + 1, Len(auth))]

UrlRecord(scheme, a, path, rawq, frag) ==
    [err |-> a.err, Scheme |-> scheme, User |-> a.User, Host |-> a.Host,
     Path |-> path, RawQuery |-> rawq, Fragment |-> frag]

\* c: what follows "scheme://", cut at its first "/"
UrlHier(scheme, c, rawq, frag) ==
    UrlRecord(scheme,
              UrlAuthority(c.before, LastOrZero({i \in DOMAIN c.before : c.before[i] = "@"})),
              IF c.found THEN <<"/">> \o c.after ELSE <<>>,
              rawq, frag)

\* s: the URL without query and fragment, cut at "://"
UrlScheme(s, rawq, frag) ==
    IF s.found
    THEN UrlHier(ToLower(s.before), Cut(s.after, <<"/">>), rawq, frag)
    ELSE [err |-> FALSE, Scheme |-> <<>>, User |-> <<>>, Host |-> <<>>,
          Path |-> s.before, RawQuery |-> rawq, Fragment |-> frag]

\* q: the URL without fragment, cut at "?"
UrlQuery(q, frag) == UrlScheme(Cut(q.before, <<":","/","/">>), q.after, frag)

\* f: the URL cut at "#"
UrlFragment(f) == UrlQuery(Cut(f.before, <<"?">>), f.after)

\* url.Parse
UrlParse(raw) == UrlFragment(Cut(raw, <<"#">>))

\* (*URL).Hostname: the host without its port
Hostname(u) == Cut(u.Host, <<":">>).before

\* (*URL).String
UrlString(u) ==
    u.Scheme \o <<":","/","/">>
        \o (IF u.User = <<>> THEN <<>> ELSE u.User \o <<"@">>)
        \o u.Host \o u.Path
        \o (IF u.RawQuery = <<>> THEN <<>> ELSE <<"?">> \o u.RawQuery)
        \o (IF u.Fragment = <<>> THEN <<>> ELSE <<"#">> \o u.Fragment)

\* the printable characters in the order of their codes, 32 (the space) to
\* 126: the order sort.Strings applies to the keys in Values.Encode, and the
\* table percent-encoding goes by (the double quote, the backslash and the
\* backquote are written by name)
CharOrder ==
   <<
      " ", "!", "quote", "#", "$", "%", "&", "'", "(", ")", "*", "+", ",", "-", ".", "/",
      "0", "1", "2", "3", "4", "5", "6", "7", "8", "9", ":", ";", "<", "=", ">", "?",
      "@", "A", "B", "C", "D", "E", "F", "G", "H", "I", "J", "K", "L", "M", "N", "O",
      "P", "Q", "R", "S", "T", "U", "V", "W", "X", "Y", "Z", "[", "backslash", "]", "^", "_",
      "backquote", "a", "b", "c", "d", "e", "f", "g", "h", "i", "j", "k", "l", "m", "n", "o",
      "p", "q", "r", "s", "t", "u", "v", "w", "x", "y", "z", "{", "|", "}", "~" >>
\* the code of a character, less 31; a byte outside the table
\* comes after every character of it
CharOrd(c) ==
    IF \E i \in DOMAIN CharOrder : CharOrder[i] = c
    THEN CHOOSE i \in DOMAIN CharOrder : CharOrder[i] = c
    ELSE Len(CharOrder) + 1

RECURSIVE StrLess(_, _)
StrLess(a, b) ==
    IF a = <<>> THEN b # <<>>
    ELSE IF b = <<>> THEN FALSE
    ELSE IF a[1] = b[1] THEN StrLess(Tail(a), Tail(b))
    ELSE CharOrd(a[1]) < CharOrd(b[1])

UpperHex == <<"0","1","2","3","4","5","6","7","8","9","A","B","C","D","E","F">>
LowerHex == <<"0","1","2","3","4","5","6","7","8","9","a","b","c","d","e","f">>
IsHex(c) == c \in Range(UpperHex) \/ c \in Range(LowerHex)
HexVal(c) ==
    IF c \in Range(UpperHex)
    THEN (CHOOSE i \in DOMAIN UpperHex : UpperHex[i] = c) - 1
    ELSE (CHOOSE i \in DOMAIN LowerHex : LowerHex[i] = c) - 1

\* the character of a code; a byte outside the table stands for itself,
\* written as its escape
CharOfCode(code, hi, lo) ==
    IF code >= 32 /\ code < 32 + Len(CharOrder)
    THEN CharOrder[code - 31]
    ELSE "%" \o hi \o lo

Unescaped(head, rest) ==
    IF rest.err THEN rest ELSE [err |-> FALSE, value |-> <<head>> \o rest.value]

\* url.QueryUnescape: "+" is a space, "%" and two hexadecimal digits are
\* the character of that code, any other "%" is an error
RECURSIVE QueryUnescape(_)
QueryUnescape(s) ==
    IF s = <<>> THEN [err |-> FALSE, value |-> <<>>]
    ELSE IF s[1] = "+" THEN Unescaped(" ", QueryUnescape(Tail(s)))
    ELSE IF s[1] # "%" THEN Unescaped(s[1], QueryUnescape(Tail(s)))
    ELSE IF Len(s) < 3 \/ ~IsHex(s[2]) \/ ~IsHex(s[3]) THEN [err |-> TRUE, value |-> <<>>]
    ELSE Unescaped(CharOfCode(HexVal(s[2]) * 16 + HexVal(s[3]), s[2], s[3]),
                   QueryUnescape(Slice(s, 4, Len(s))))

Unreserved == UpperSet \cup LowerSet \cup DigitChars \cup {"-", "_", ".", "~"}

EscapeCode(code) == <<"%", UpperHex[(code \div 16) + 1], UpperHex[(code % 16) + 1]>>

QueryEscapeChar(c) ==
    IF c \in Unreserved THEN <<c>>
    ELSE IF c = " " THEN <<"+">>
    ELSE IF CharOrd(c) <= Len(CharOrder) THEN EscapeCode(CharOrd(c) + 31)
    ELSE <<c>>

\* url.QueryEscape
RECURSIVE QueryEscape(_)
QueryEscape(s) ==
    IF s = <<>> THEN <<>> ELSE QueryEscapeChar(Head(s)) \o QueryEscape(Tail(s))

\* one "key=value" segment of a raw query, cut at its first "=": the pair
\* of the unescaped key and value, or nothing when either is malformed
UnescapedPair(key, value) ==
    IF key.err \/ value.err THEN <<>> ELSE <<[key |-> key.value, value |-> value.value]>>

QueryPair(c) == UnescapedPair(QueryUnescape(c.before), QueryUnescape(c.after))

QuerySegment(seg) ==
    IF Contains(seg, <<";">>) \/ seg = <<>> THEN <<>> ELSE QueryPair(Cut(seg, <<"=">>))

\* url.ParseQuery, its error dropped as (*URL).Query drops it: the
\* key=value pairs of a raw query, in order; a segment that holds a
\* semicolon, is empty or has a malformed escape is skipped
RECURSIVE ParsePairs(_)
ParsePairs(segs) ==
    IF segs = <<>> THEN <<>> ELSE QuerySegment(Head(segs)) \o ParsePairs(Tail(segs))

ParseQuery(rawq) == IF rawq = <<>> THEN <<>> ELSE ParsePairs(Split(rawq, <<"&">>))

\* the "key=value" segments of the pairs, escaped and joined by "&"
RECURSIVE JoinPairs(_)
JoinPairs(pairs) ==
    IF pairs = <<>> THEN <<>>
    ELSE QueryEscape(Head(pairs).key) \o <<"=">> \o QueryEscape(Head(pairs).value)
             \o (IF Tail(pairs) = <<>> THEN <<>> ELSE <<"&">> \o JoinPairs(Tail(pairs)))

\* the pairs ordered by key, the pairs of one key in their order of appearance
RECURSIVE SortPairs(_, _)
SortPairs(pairs, keys) ==
    IF keys = {} THEN <<>>
    ELSE LET k == CHOOSE x \in keys : \A y \in keys : x = y \/ StrLess(x, y)
         IN  SelectSeq(pairs, LAMBDA kv : kv.key = k) \o SortPairs(pairs, keys \ {k})

\* Values.Encode
QueryEncode(pairs) == JoinPairs(SortPairs(pairs, {pairs[i].key : i \in DOMAIN pairs}))

(***************************************************************************)
(* scoring.go                                                              *)
(***************************************************************************)
categoryContact == "contact_completeness"
categoryWebsite == "website_quality"
categorySocial == "social_presence"
categoryBusiness == "business_profile"

freeHostingDomains ==
    << <<"w","o","r","d","p","r","e","s","s",".","c","o","m">>, <<"b","l","o","g","s","p","o","t",".","c","o","m">>, <<"w","i","x","s","i","t","e",".","c","o","m">>, <<"w","e","e","b","l","y",".","c","o","m">>,
       <<"s","q","u","a","r","e","s","p","a","c","e",".","c","o","m">>, <<"m","e","d","i","u","m",".","c","o","m">>, <<"s","u","b","s","t","a","c","k",".","c","o","m">>,
       <<"g","o","d","a","d","d","y","s","i","t","e","s",".","c","o","m">>, <<"n","o","t","i","o","n",".","s","i","t","e">>, <<"g","o","o","g","l","e","p","a","g","e","s",".","c","o","m">> >>

min(a, b) == IF a < b THEN a ELSE b

\* "if score > cap { return cap }; return score"
Clamp(score, cap) == IF score > cap THEN cap ELSE score

hasValue(values) == \E i \in DOMAIN values : TrimSpace(values[i]) # <<>>

splitSocialValue(raw) ==
    IF TrimSpace(raw) = <<>> THEN <<>>
    ELSE FieldsFunc(raw, {",", ";", "|", " ", "\n", "\t", "\r"})

\* the tokens that countSocialLinks counts: those that are not empty
CountNonEmpty(tokens) == Cardinality({i \in DOMAIN tokens : tokens[i] # <<>>})

RECURSIVE countTokens(_, _)
countTokens(socials, keys) ==
    IF keys = {} THEN 0
    ELSE LET k == CHOOSE x \in keys : TRUE
         IN  CountNonEmpty(splitSocialValue(socials[k])) + countTokens(socials, keys \ {k})

countSocialLinks(socials) ==
    IF DOMAIN socials = {} THEN 0 ELSE countTokens(socials, DOMAIN socials)

\* result[normalizedKey] = value, unless the normalized key is empty
PutSocialKey(result, normalizedKey, value) ==
    IF normalizedKey = <<>> THEN result
    ELSE [k \in DOMAIN result \cup {normalizedKey} |->
             IF k = normalizedKey THEN value ELSE result[k]]

\* the map built by ranging over socials in the given order: a later key
\* that normalizes like an earlier one overwrites its value
RECURSIVE normalizeSocialKeys(_, _)
normalizeSocialKeys(socials, order) ==
    IF order = <<>> THEN <<>>
    ELSE PutSocialKey(normalizeSocialKeys(socials, Slice(order, 1, Len(order) - 1)),
                      ToLower(TrimSpace(order[Len(order)])),
                      TrimSpace(socials[order[Len(order)]]))

\* m[k] of a Go map: the zero value when the key is absent
MapGet(m, k) == IF k \in DOMAIN m THEN m[k] ELSE <<>>

\* only the flag confirms HTTPS
hasHTTPSFlagOnly(input) == input.HasHTTPS

hasHTTPS(input) ==
    \/ input.HasHTTPS
    \/ HasPrefix(ToLower(TrimSpace(input.Website)), <<"h","t","t","p","s",":","/","/">>)

CompleteAddress(addr) ==
    /\ Len(addr) >= 10
    /\ \E i \in DOMAIN addr : IsLetter(addr[i])
    /\ \E i \in DOMAIN addr : IsDigit(addr[i])
    /\ Count(addr, ",") >= 1

hasCompleteAddress(raw) == CompleteAddress(TrimSpace(raw))

DomainOfParsed(parsed) ==
    IF parsed.err THEN <<>>
    ELSE TrimPrefix(TrimSpace(ToLower(parsed.Host)), <<"w","w","w",".">>)

DomainOfLowered(lowered) ==
    DomainOfParsed(UrlParse(IF Contains(lowered, <<":","/","/">>) THEN lowered
                            ELSE <<"h","t","t","p","s",":","/","/">> \o lowered))

DomainOfTrimmed(raw) == IF raw = <<>> THEN <<>> ELSE DomainOfLowered(ToLower(raw))

extractDomain(raw) == DomainOfTrimmed(TrimSpace(raw))

HighQuality(domain) ==
    /\ domain # <<>>
    /\ \A i \in DOMAIN freeHostingDomains :
          ~(domain = freeHostingDomains[i]
              \/ HasSuffix(domain, <<".">> \o freeHostingDomains[i]))
    /\ Count(domain, ".") >= 1

highQualityDomain(raw) == HighQuality(extractDomain(raw))

scoreContactCompleteness(input) ==
    Clamp((IF hasValue(input.Emails) THEN 10 ELSE 0)
              + (IF hasValue(input.Phones) THEN 10 ELSE 0)
              + min(countSocialLinks(input.Socials), 10),
          30)

\* every signal is worth 10 and the cap is forgotten
scoreWebsiteQualityFlatUncapped(input) ==
    (IF hasHTTPS(input) THEN 10 ELSE 0)
        + (IF input.HasContactPage THEN 10 ELSE 0)
        + (IF input.HasAboutPage THEN 10 ELSE 0)
        + (IF input.HasContactForm THEN 10 ELSE 0)

scoreWebsiteQuality(input) ==
    Clamp((IF hasHTTPS(input) THEN 10 ELSE 0)
              + (IF input.HasContactPage THEN 10 ELSE 0)
              + (IF input.HasAboutPage THEN 5 ELSE 0)
              + (IF input.HasContactForm THEN 5 ELSE 0),
          30)

SocialPoints(normalized) ==
    (IF MapGet(normalized, <<"l","i","n","k","e","d","i","n">>) # <<>> THEN 5 ELSE 0)
        + (IF MapGet(normalized, <<"i","n","s","t","a","g","r","a","m">>) # <<>> THEN 5 ELSE 0)
        + (IF MapGet(normalized, <<"f","a","c","e","b","o","o","k">>) # <<>> THEN 5 ELSE 0)
        + (IF MapGet(normalized, <<"y","o","u","t","u","b","e">>) # <<>>
              \/ MapGet(normalized, <<"t","i","k","t","o","k">>) # <<>> THEN 5 ELSE 0)

\* order: the order in which normalizeSocialKeys ranges over input.Socials
scoreSocialPresence(input, order) ==
    IF DOMAIN input.Socials = {} THEN 0
    ELSE Clamp(SocialPoints(normalizeSocialKeys(input.Socials, order)), 20)

scoreBusinessProfile(input) ==
    Clamp((IF hasCompleteAddress(input.Address) THEN 10 ELSE 0)
              + (IF highQualityDomain(input.Website) THEN 10 ELSE 0),
          20)

Categories == {categoryContact, categoryWebsite, categorySocial, categoryBusiness}

RECURSIVE SumOver(_, _)
SumOver(m, keys) ==
    IF keys = {} THEN 0
    ELSE LET k == CHOOSE x \in keys : TRUE IN m[k] + SumOver(m, keys \ {k})

\* "for _, value := range breakdown { total += value }"
ScoreResultOf(breakdown) ==
    [Total |-> SumOver(breakdown, DOMAIN breakdown), Breakdown |-> breakdown]

Breakdown(input, order) ==
    [c \in Categories |->
        CASE c = categoryContact  -> scoreContactCompleteness(input)
          [] c = categoryWebsite  -> scoreWebsiteQuality(input)
          [] c = categorySocial   -> scoreSocialPresence(input, order)
          [] c = categoryBusiness -> scoreBusinessProfile(input)]

\* the total misses the last category
ComputeScoreSkipsBusiness(input, order) ==
    [Total     |-> SumOver(Breakdown(input, order), Categories \ {categoryBusiness}),
     Breakdown |-> Breakdown(input, order)]

ComputeScore(input, order) == ScoreResultOf(Breakdown(input, order))

(***************************************************************************)
(* validation.go: social links                                             *)
(***************************************************************************)
trackingPrefix == <<"u","t","m","_">>
StatusOK == 200
StatusMethodNotAllowed == 405
StatusNotFound == 404

Platforms == {"linkedin", "facebook", "instagram", "youtube", "tiktok"}

allowedSocialDomains ==
    << [domain |-> <<"l","i","n","k","e","d","i","n",".","c","o","m">>,  platform |-> "linkedin"],
       [domain |-> <<"f","a","c","e","b","o","o","k",".","c","o","m">>,  platform |-> "facebook"],
       [domain |-> <<"i","n","s","t","a","g","r","a","m",".","c","o","m">>, platform |-> "instagram"],
       [domain |-> <<"y","o","u","t","u","b","e",".","c","o","m">>,   platform |-> "youtube"],
       [domain |-> <<"y","o","u","t","u",".","b","e">>,      platform |-> "youtube"],
       [domain |-> <<"t","i","k","t","o","k",".","c","o","m">>,    platform |-> "tiktok"] >>

CanonicalOf(k) ==
    CASE k \in {<<"l","i","n","k","e","d","i","n">>, <<"l","i","n","k","e","d","i","n","_","u","r","l">>} -> "linkedin"
      [] k \in {<<"f","a","c","e","b","o","o","k">>, <<"f","a","c","e","b","o","o","k","_","u","r","l">>} -> "facebook"
      [] k \in {<<"i","n","s","t","a","g","r","a","m">>, <<"i","n","s","t","a","g","r","a","m","_","u","r","l">>, <<"i","g">>} -> "instagram"
      [] k \in {<<"y","o","u","t","u","b","e">>, <<"y","o","u","t","u","b","e","_","u","r","l">>, <<"y","o","u","t","u">>, <<"y","o","u","t","u","_","b","e">>} -> "youtube"
      [] k \in {<<"t","i","k","t","o","k">>, <<"t","i","k","t","o","k","_","u","r","l">>} -> "tiktok"
      [] OTHER -> ""

canonicalSocialKey(key) == CanonicalOf(ToLower(TrimSpace(key)))

NoMatch == [platform |-> "", ok |-> FALSE]

\* the suffix test forgets the separating dot
DomainMatchesAnySuffix(host, domain) == host = domain \/ HasSuffix(host, domain)

\* "host == domain || strings.HasSuffix(host, "."+domain)"
DomainMatches(host, domain) == host = domain \/ HasSuffix(host, <<".">> \o domain)

\* every (platform, ok) the loop over allowedSocialDomains can return for a
\* host: the loop returns at the first matching domain it happens to visit
MatchesOfHost(host) ==
    IF host = <<>> \/ \A i \in DOMAIN allowedSocialDomains :
                          ~DomainMatches(host, allowedSocialDomains[i].domain)
    THEN {NoMatch}
    ELSE {[platform |-> allowedSocialDomains[i].platform, ok |-> TRUE] :
             i \in {j \in DOMAIN allowedSocialDomains :
                       DomainMatches(host, allowedSocialDomains[j].domain)}}

hostMatchesAllowed(host) == MatchesOfHost(ToLower(Trim(TrimSpace(host), {"."})))

SanitizeParsed(u) ==
    IF u.err \/ u.Host = <<>> THEN [err |-> TRUE] ELSE [u EXCEPT !.Scheme = <<"h","t","t","p","s">>]

SanitizeTrimmed(raw) ==
    IF raw = <<>> THEN [err |-> TRUE]
    ELSE SanitizeParsed(UrlParse(IF Contains(raw, <<":","/","/">>) THEN raw ELSE <<"h","t","t","p","s",":","/","/">> \o raw))

sanitizeURL(raw) == SanitizeTrimmed(TrimSpace(raw))

IsTracking(kv) == HasPrefix(ToLower(kv.key), trackingPrefix)

\* the query re-encoded when a key was deleted, untouched otherwise
StripPairs(u, query, kept) ==
    IF kept # query THEN [u EXCEPT !.RawQuery = QueryEncode(kept)] ELSE u

StripQuery(u, query) == StripPairs(u, query, SelectSeq(query, LAMBDA kv : ~IsTracking(kv)))

stripTracking(u) == StripQuery(u, ParseQuery(u.RawQuery))

\* An answer of the HTTP client to one request: a transport error, or a
\* response with a status code.
TransportError == [err |-> TRUE, StatusCode |-> 0]
Response(code) == [err |-> FALSE, StatusCode |-> code]
HeadAnswers ==
    {TransportError, Response(StatusOK), Response(StatusNotFound),
     Response(StatusMethodNotAllowed)}
GetAnswers == {TransportError, Response(StatusOK), Response(StatusNotFound)}

Request(method, target, answer) == [method |-> method, url |-> target, answer |-> answer]

\* the GET fallback accepts any response, whatever its status
urlResolvesGetAnyStatus(target, head, get) ==
    IF ~head.err /\ head.StatusCode = StatusOK
    THEN [ok |-> TRUE, requests |-> <<Request("HEAD", target, head)>>]
    ELSE IF ~head.err /\ head.StatusCode # StatusMethodNotAllowed
    THEN [ok |-> FALSE, requests |-> <<Request("HEAD", target, head)>>]
    ELSE [ok       |-> ~get.err,
          requests |-> <<Request("HEAD", target, head), Request("GET", target, get)>>]

\* every HEAD answer other than 200 falls through to the GET
urlResolvesAlwaysFallsBack(target, head, get) ==
    IF ~head.err /\ head.StatusCode = StatusOK
    THEN [ok |-> TRUE, requests |-> <<Request("HEAD", target, head)>>]
    ELSE [ok       |-> ~get.err /\ get.StatusCode = StatusOK,
          requests |-> <<Request("HEAD", target, head), Request("GET", target, get)>>]

\* head: the client's answer to the HEAD request; get: its answer to a GET
\* request for the same target, should one be issued
urlResolves(target, head, get) ==
    IF ~head.err /\ head.StatusCode = StatusOK
    THEN [ok |-> TRUE, requests |-> <<Request("HEAD", target, head)>>]
    ELSE IF ~head.err /\ head.StatusCode # StatusMethodNotAllowed
    THEN [ok |-> FALSE, requests |-> <<Request("HEAD", target, head)>>]
    ELSE [ok       |-> ~get.err /\ get.StatusCode = StatusOK,
          requests |-> <<Request("HEAD", target, head), Request("GET", target, get)>>]

Rejected == [sanitized |-> <<>>, ok |-> FALSE, requests |-> <<>>]

\* the URL is returned whatever the probe found
ProbeResultAnyway(target, r) == [sanitized |-> target, ok |-> TRUE, requests |-> r.requests]

\* "if !p.urlResolves(ctx, u.String()) { return "", false }; return u.String(), true"
ProbeResult(target, r) ==
    [sanitized |-> IF r.ok THEN target ELSE <<>>, ok |-> r.ok, requests |-> r.requests]

ProbeTarget(target, head, get) == ProbeResult(target, urlResolves(target, head, get))

CleanSanitized(platform, u, match, head, get) ==
    IF u.err \/ ~match.ok \/ match.platform # platform
    THEN Rejected
    ELSE ProbeTarget(UrlString(stripTracking(u)), head, get)

\* match: what hostMatchesAllowed returns for the candidate's host
cleanSocialLink(platform, raw, match, head, get) ==
    CleanSanitized(platform, sanitizeURL(raw), match, head, get)

\* (*SocialLinks).set
set(links, platform, value) ==
    IF platform \in Platforms THEN [links EXCEPT ![platform] = value] ELSE links

(***************************************************************************)
(* One call of validateSocials.  The input map and its candidate lists are *)
(* read as the loops reach them: RangeSocialKey takes the next label the   *)
(* range over the map yields and the length of its candidate list, and     *)
(* TrySocialCandidate takes the next candidate of that list.               *)
(***************************************************************************)
SocialLabels == { <<"l","i","n","k","e","d","i","n">>, <<" ","L","i","n","k","e","d","I","n","_","U","R","L">>, <<"f","a","c","e","b","o","o","k">>, <<"t","w","i","t","t","e","r">> }
SocialCandidates ==
    { <<"h","t","t","p",":","/","/","W","W","W",".","L","i","n","k","e","d","I","n",".","c","o","m",".","/","b","?","u","t","m","_","s","o","u","r","c","e","=","x","&","i","d","=","1">>,
      <<"h","t","t","p","s",":","/","/","f","a","c","e","b","o","o","k",".","c","o","m","/","p">>,
      <<"n","o","t","l","i","n","k","e","d","i","n",".","c","o","m","/","a">>,
      <<" "," ">> }

NoLabel == [key |-> <<>>, platform |-> "", remaining |-> 0]
NoAnswer == [err |-> FALSE, StatusCode |-> 0]
\* head, get: the answers the HTTP client had for the candidate's URL
NoProbe == [platform |-> "", raw |-> <<>>, ok |-> FALSE, sanitized |-> <<>>,
            requests |-> <<>>, remaining |-> 0, head |-> NoAnswer, get |-> NoAnswer]

SocialIdle ==
    /\ socialPc = "idle"
    /\ visited = {}
    /\ cur = NoLabel
    /\ used = {}
    /\ socialLinks = [p \in Platforms |-> <<>>]
    /\ lastProbe = NoProbe

\* validateSocials is called: an empty map returns at once
ValidateSocials ==
    /\ socialPc = "idle"
    /\ \E empty \in BOOLEAN : socialPc' = IF empty THEN "done" ELSE "ranging"
    /\ UNCHANGED <<visited, cur, used, socialLinks, lastProbe, scoreVars, emailVars, cleanVars, runVars>>

\* a label is entered even when its platform is already resolved
EnterLabelAgain(key, platform, n) ==
    IF platform = "" \/ n = 0
    THEN NoLabel
    ELSE [key |-> key, platform |-> platform, remaining |-> n]

\* "if platform == "" || len(candidates) == 0 { continue }" and
\* "if _, exists := used[platform]; exists { continue }"
EnterLabel(key, platform, n) ==
    IF platform = "" \/ n = 0 \/ platform \in used
    THEN NoLabel
    ELSE [key |-> key, platform |-> platform, remaining |-> n]

\* the range over the map yields its next label, with n candidates
RangeSocialKey ==
    /\ socialPc = "ranging"
    /\ cur = NoLabel
    /\ \E key \in SocialLabels \ visited, n \in 0..MaxCandidates :
          /\ visited' = visited \cup {key}
          /\ cur' = EnterLabel(key, canonicalSocialKey(key), n)
    /\ UNCHANGED <<socialPc, used, socialLinks, lastProbe, scoreVars, emailVars, cleanVars, runVars>>

\* what hostMatchesAllowed(u.Hostname()) can return for a candidate
MatchesOfSanitized(u) == IF u.err THEN {NoMatch} ELSE hostMatchesAllowed(Hostname(u))
CandidateMatches(raw) == MatchesOfSanitized(sanitizeURL(raw))

\* the body of the loop over the candidates, r being cleanSocialLink's result
TakeCandidate(raw, r, head, get) ==
    /\ lastProbe' = [platform |-> cur.platform, raw |-> raw, ok |-> r.ok,
                     sanitized |-> r.sanitized, requests |-> r.requests,
                     remaining |-> cur.remaining - 1, head |-> head, get |-> get]
    /\ IF r.ok
       THEN /\ socialLinks' = set(socialLinks, cur.platform, r.sanitized)
            /\ used' = used \cup {cur.platform}
            /\ cur' = NoLabel
       ELSE /\ UNCHANGED <<socialLinks, used>>
            /\ cur' = IF cur.remaining = 1 THEN NoLabel
                      ELSE [cur EXCEPT !.remaining = @ - 1]

\* the next candidate of the current label goes through cleanSocialLink
TrySocialCandidate ==
    /\ socialPc = "ranging"
    /\ cur # NoLabel
    /\ \E raw \in SocialCandidates, head \in HeadAnswers, get \in GetAnswers :
          \E match \in CandidateMatches(raw) :
             TakeCandidate(raw, cleanSocialLink(cur.platform, raw, match, head, get),
                           head, get)
    /\ UNCHANGED <<socialPc, visited, scoreVars, emailVars, cleanVars, runVars>>

\* the range over the map is exhausted: validateSocials returns socialLinks
ReturnSocials ==
    /\ socialPc = "ranging"
    /\ cur = NoLabel
    /\ visited # {}
    /\ socialPc' = "done"
    /\ UNCHANGED <<visited, cur, used, socialLinks, lastProbe, scoreVars, emailVars, cleanVars, runVars>>

(***************************************************************************)
(* validation.go: emails                                                   *)
(***************************************************************************)
LocalPartChars == LowerSet \cup DigitChars \cup {".", "_", "%", "+", "-", "'"}
DomainPartChars == LowerSet \cup DigitChars \cup {".", "-"}

\* ^[a-z0-9._%+\-']+@[a-z0-9.-]+\.[a-z]{2,}$
\* at: the position of the "@", dot: the position of the "." before the
\* final run of letters
emailPattern(s) ==
    \E at \in DOMAIN s, dot \in DOMAIN s :
        /\ s[at] = "@"
        /\ at > 1
        /\ \A i \in 1..(at - 1) : s[i] \in LocalPartChars
        /\ dot >= at + 2
        /\ s[dot] = "."
        /\ \A i \in (at + 1)..(dot - 1) : s[i] \in DomainPartChars
        /\ Len(s) - dot >= 2
        /\ \A i \in (dot + 1)..Len(s) : IsLower(s[i])

ValidLabels(parts) ==
    \A i \in DOMAIN parts :
        ~(parts[i] = <<>> \/ HasPrefix(parts[i], <<"-">>) \/ HasSuffix(parts[i], <<"-">>))

isDomainValid(domain) ==
    /\ Count(domain, ".") # 0
    /\ ValidLabels(Split(domain, <<".">>))

\* idna.Lookup.ToASCII on a name of lower-case letters, digits, hyphens and
\* dots: a label with hyphens in its third and fourth place that is not an
\* "xn--" label is an error, every other name is returned as it is
HyphenLabel(label) ==
    Len(label) >= 4 /\ label[3] = "-" /\ label[4] = "-" /\ ~HasPrefix(label, <<"x","n","-","-">>)

LabelsToASCII(domain, parts) ==
    IF \E i \in DOMAIN parts : HyphenLabel(parts[i])
    THEN [err |-> TRUE, value |-> <<>>]
    ELSE [err |-> FALSE, value |-> domain]

ToASCII(domain) == LabelsToASCII(domain, Split(domain, <<".">>))

\* What LookupMX returns: an error, or a list of records.
MXError == [err |-> TRUE, records |-> 0]
MXRecords(n) == [err |-> FALSE, records |-> n]
MXAnswers == {MXError, MXRecords(0), MXRecords(1)}

\* an answer that differs from the given one in its verdict
OtherAnswer(answer) == IF ~answer.err /\ answer.records > 0 THEN MXError ELSE MXRecords(1)

\* the domains of the addresses that reach the lookup
MailDomains == { <<"x",".","i","o">>, <<"y",".","i","o">> }

\* The resolver of the DataProcessor: none (WithDNSResolver(nil)), one that
\* answers a domain the same way every time ("stable", by its table), or
\* one whose answers vary ("flaky").  A script is what the resolver answers
\* during one call: first[d] to the first lookup of d, again[d] to a later
\* one.
Resolvers ==
    {[kind |-> "nil", table |-> [d \in MailDomains |-> MXError]],
     [kind |-> "flaky", table |-> [d \in MailDomains |-> MXError]]}
        \cup {[kind |-> "stable", table |-> t] : t \in [MailDomains -> MXAnswers]}

Scripts(p) ==
    IF p.kind = "flaky"
    THEN {[first |-> f, again |-> [d \in MailDomains |-> OtherAnswer(f[d])]] :
             f \in [MailDomains -> MXAnswers]}
    ELSE {[first |-> p.table, again |-> p.table]}

\* the resolver's answer to a lookup of domain, after the lookups already made
AnswerOf(script, lookups, domain) ==
    IF domain \notin MailDomains THEN MXError
    ELSE IF \E i \in DOMAIN lookups : lookups[i].domain = domain
    THEN script.again[domain]
    ELSE script.first[domain]

\* "records, err := p.dnsResolver.LookupMX(ctx, domain);
\*  return err == nil && len(records) > 0"
hasMXRecordIgnoresRecords(p, answer) == p.kind # "nil" /\ ~answer.err

hasMXRecord(p, answer) == p.kind # "nil" /\ ~answer.err /\ answer.records > 0

\* the state of the loop of cleanEmails
NewClean == [seen |-> {}, domainCache |-> <<>>, valid |-> <<>>, lookups |-> <<>>]

\* the duplicate test is missing
AdmitEmailAlways(email, st) == [st EXCEPT !.valid = Append(@, email)]

\* the address is put in front of the list
AdmitEmailInFront(email, st) ==
    IF email \in st.seen THEN st
    ELSE [st EXCEPT !.seen = @ \cup {email}, !.valid = <<email>> \o @]

\* "if _, dup := seen[email]; dup { continue }; seen[email] = struct{}{};
\*  valid = append(valid, email)"
AdmitEmail(email, st) ==
    IF email \in st.seen THEN st
    ELSE [st EXCEPT !.seen = @ \cup {email}, !.valid = Append(@, email)]

\* domainCache[asciiDomain] = hasMX
CacheVerdict(st, domain, hasMX) ==
    [st EXCEPT !.domainCache = [d \in DOMAIN st.domainCache \cup {domain} |->
                                   IF d = domain THEN hasMX ELSE st.domainCache[d]]]

\* the lookup made, when there is a resolver to make it
LogLookup(p, st, domain, answer) ==
    IF p.kind = "nil" THEN st
    ELSE [st EXCEPT !.lookups = Append(@, [domain |-> domain, answer |-> answer])]

\* "hasMX := p.hasMXRecord(ctx, asciiDomain); domainCache[asciiDomain] = hasMX;
\*  if !hasMX { continue }"
LookupVerdict(p, email, domain, st, answer) ==
    IF hasMXRecord(p, answer)
    THEN AdmitEmail(email, CacheVerdict(LogLookup(p, st, domain, answer), domain, TRUE))
    ELSE CacheVerdict(LogLookup(p, st, domain, answer), domain, FALSE)

\* the cache is not keyed by the domain: the verdict of the latest lookup
\* is taken for every domain
CheckMXSingleSlot(p, email, domain, st, script) ==
    IF st.lookups # <<>>
    THEN IF hasMXRecord(p, st.lookups[Len(st.lookups)].answer)
         THEN AdmitEmail(email, st) ELSE st
    ELSE LookupVerdict(p, email, domain, st, AnswerOf(script, st.lookups, domain))

\* the cache is never read: every candidate is looked up
CheckMXUncached(p, email, domain, st, script) ==
    LookupVerdict(p, email, domain, st, AnswerOf(script, st.lookups, domain))

\* "if ok, cached := domainCache[asciiDomain]; cached { if !ok { continue } }
\*  else { ... }"
CheckMX(p, email, domain, st, script) ==
    IF domain \in DOMAIN st.domainCache
    THEN IF st.domainCache[domain] THEN AdmitEmail(email, st) ELSE st
    ELSE LookupVerdict(p, email, domain, st, AnswerOf(script, st.lookups, domain))

CheckASCII(p, email, ascii, st, script) ==
    IF ascii.err \/ ascii.value = <<>> THEN st
    ELSE CheckMX(p, email, ascii.value, st, script)

CheckDomain(p, email, domain, st, script) ==
    IF ~isDomainValid(domain) THEN st
    ELSE CheckASCII(p, email, ToASCII(domain), st, script)

\* parts := strings.SplitN(email, "@", 2); domain := parts[1]
CheckEmail(p, email, st, script) ==
    IF email = <<>> \/ ~emailPattern(email) THEN st
    ELSE CheckDomain(p, email, Cut(email, <<"@">>).after, st, script)

\* the body of the loop over the candidates
CleanOne(p, raw, st, script) == CheckEmail(p, ToLower(TrimSpace(raw)), st, script)

RECURSIVE CleanLoop(_, _, _, _)
CleanLoop(p, emails, st, script) ==
    IF emails = <<>> THEN st
    ELSE CleanLoop(p, Tail(emails), CleanOne(p, Head(emails), st, script), script)

\* the list returned (nil and the empty list are both <<>>) and the lookups made
cleanEmails(p, emails, script) ==
    IF emails = <<>> THEN NewClean ELSE CleanLoop(p, emails, NewClean, script)

(***************************************************************************)
(* Calls of cleanEmails on one DataProcessor.                              *)
(***************************************************************************)
EmailPool ==
    { <<" ","A","@","x",".","i","o">>, <<"a","@","x",".","i","o">>, <<"b","@","x",".","i","o">>, <<"c","@","y",".","i","o">>, <<"b","a","d","@">>, <<"d","@","-","y",".","i","o">> }
EmailInputs == UNION {[1..n -> EmailPool] : n \in 0..MaxEmails}

\* the inputs of the runs that compare a list with its rearrangements
EmailOrderPool == { <<"A","@","x",".","i","o">>, <<"a","@","x",".","i","o">>, <<"c","@","y",".","i","o">> }
EmailOrderInputs == UNION {[1..n -> EmailOrderPool] : n \in 0..MaxEmails}

Occurrences(s, x) == Cardinality({i \in DOMAIN s : s[i] = x})

\* the lists that hold the entries of s in another order (s itself included)
Rearrangements(s) ==
    {t \in [DOMAIN s -> Range(s)] : \A x \in Range(s) : Occurrences(t, x) = Occurrences(s, x)}

CallRecord(kind, input, st) ==
    [kind |-> kind, input |-> input, output |-> st.valid, lookups |-> st.lookups]

EmailIdle ==
    /\ resolver = [kind |-> "nil", table |-> [d \in MailDomains |-> MXError]]
    /\ emailCalls = <<>>

\* p.cleanEmails(ctx, input)
CleanEmails ==
    /\ emailCalls = <<>>
    /\ \E input \in EmailInputs, script \in Scripts(resolver) :
          emailCalls' = <<CallRecord("first", input, cleanEmails(resolver, input, script))>>
    /\ UNCHANGED <<resolver, scoreVars, socialVars, cleanVars, runVars>>

\* p.cleanEmails(ctx, output), output being the list the first call returned
CleanEmailsAgain ==
    /\ Len(emailCalls) = 1
    /\ \E script \in Scripts(resolver) :
          emailCalls' = Append(emailCalls,
                               CallRecord("again", emailCalls[1].output,
                                          cleanEmails(resolver, emailCalls[1].output, script)))
    /\ UNCHANGED <<resolver, scoreVars, socialVars, cleanVars, runVars>>

\* p.cleanEmails(ctx, input), input drawn from the lists to be rearranged
CleanEmailsFirst ==
    /\ emailCalls = <<>>
    /\ \E input \in EmailOrderInputs, script \in Scripts(resolver) :
          emailCalls' = <<CallRecord("first", input, cleanEmails(resolver, input, script))>>
    /\ UNCHANGED <<resolver, scoreVars, socialVars, cleanVars, runVars>>

\* p.cleanEmails(ctx, permuted), permuted being the first input rearranged
CleanEmailsPermuted ==
    /\ Len(emailCalls) = 1
    /\ \E permuted \in Rearrangements(emailCalls[1].input), script \in Scripts(resolver) :
          emailCalls' = Append(emailCalls,
                               CallRecord("permuted", permuted,
                                          cleanEmails(resolver, permuted, script)))
    /\ UNCHANGED <<resolver, scoreVars, socialVars, cleanVars, runVars>>

(***************************************************************************)
(* validation.go: phones                                                   *)
(*                                                                         *)
(* github.com/nyaruka/phonenumbers is modelled for the numbers of the      *)
(* North American plan (country code 1) written with digits, "+", spaces,  *)
(* parentheses, hyphens and dots, with the United States as the default    *)
(* region, the way the tests build the DataProcessor.                      *)
(***************************************************************************)
DefaultRegion == <<"U","S">>
PhonePunctuation == {" ", "(", ")", "-", "."}
NanpLeadDigits == {"2", "3", "4", "5", "6", "7", "8", "9"}

RECURSIVE DigitsOf(_)
DigitsOf(s) ==
    IF s = <<>> THEN <<>>
    ELSE IF IsDigit(Head(s)) THEN <<Head(s)>> \o DigitsOf(Tail(s))
    ELSE DigitsOf(Tail(s))

NotANumber == [err |-> TRUE, countryCode |-> <<>>, national |-> <<>>]
ParsedNumber(cc, national) == [err |-> FALSE, countryCode |-> cc, national |-> national]

\* a number written with "+": the country code is read off its digits; the
\* only country code the model knows is 1, and no country code starts with 0
ParseInternational(digits) ==
    IF HasPrefix(digits, <<"1">>)
    THEN ParsedNumber(<<"1">>, Slice(digits, 2, Len(digits)))
    ELSE NotANumber

\* a number written without "+" is a national number of the region; a
\* leading 1 (the national prefix, and the country code) is taken off
ParseNational(digits) ==
    IF HasPrefix(digits, <<"1">>)
    THEN ParsedNumber(<<"1">>, Slice(digits, 2, Len(digits)))
    ELSE ParsedNumber(<<"1">>, digits)

ParseDigits(raw, digits) ==
    IF Len(digits) < 2 \/ Len(digits) > 17 THEN NotANumber
    ELSE IF Head(raw) = "+" THEN ParseInternational(digits)
    ELSE ParseNational(digits)

\* phonenumbers.Parse(raw, region) for a trimmed, non-empty raw
Parse(raw, region) ==
    IF region # DefaultRegion THEN NotANumber
    ELSE IF \E i \in DOMAIN raw : ~(IsDigit(raw[i]) \/ raw[i] \in PhonePunctuation
                                      \/ (i = 1 /\ raw[i] = "+"))
    THEN NotANumber
    ELSE ParseDigits(raw, DigitsOf(raw))

\* a national number of the plan has ten digits
IsPossibleNumber(number) == Len(number.national) = 10

\* area code and exchange start with 2..9
IsValidNumber(number) ==
    /\ Len(number.national) = 10
    /\ number.national[1] \in NanpLeadDigits
    /\ number.national[4] \in NanpLeadDigits

\* phonenumbers.Format(number, phonenumbers.E164)
FormatE164(number) == <<"+">> \o number.countryCode \o number.national

NormalizeParsed(number) ==
    IF number.err THEN <<>>
    ELSE IF ~IsPossibleNumber(number) \/ ~IsValidNumber(number) THEN <<>>
    ELSE FormatE164(number)

NormalizeTrimmed(raw, region) ==
    IF raw = <<>> THEN <<>> ELSE NormalizeParsed(Parse(raw, region))

normalizePhone(raw, region) == NormalizeTrimmed(TrimSpace(raw), region)

\* "if phone := strings.TrimSpace(primary); phone != "" { candidates =
\*  append(candidates, phone) }; candidates = append(candidates, secondary...)"
PhoneCandidates(primary, secondary) ==
    (IF TrimSpace(primary) # <<>> THEN <<TrimSpace(primary)>> ELSE <<>>) \o secondary

NewPhones == [seen |-> {}, valid |-> <<>>]

\* the duplicate test is missing
AdmitPhoneAlways(normalized, st) ==
    IF normalized = <<>> THEN st ELSE [st EXCEPT !.valid = Append(@, normalized)]

\* the body of the loop over the candidates
AdmitPhone(normalized, st) ==
    IF normalized = <<>> THEN st
    ELSE IF normalized \in st.seen THEN st
    ELSE [st EXCEPT !.seen = @ \cup {normalized}, !.valid = Append(@, normalized)]

RECURSIVE PhoneLoop(_, _, _)
PhoneLoop(candidates, region, st) ==
    IF candidates = <<>> THEN st
    ELSE PhoneLoop(Tail(candidates), region,
                   AdmitPhone(normalizePhone(Head(candidates), region), st))

\* the list returned (nil and the empty list are both <<>>)
normalizePhones(primary, secondary, region) ==
    PhoneLoop(PhoneCandidates(primary, secondary), region, NewPhones).valid

PhonePool ==
    { <<" ","(","4","1","5",")"," ","5","5","5","-","1","2","3","4"," ">>, <<"+","1","4","1","5","5","5","5","1","2","3","4">>, <<"2","1","2","-","7","3","6","-","5","0","0","0">>, <<"1","2","3","4","5">>, <<"a","b","c">>, <<" "," ">> }
PrimaryPhones == PhonePool \cup {<<>>}
SecondaryPhones == UNION {[1..n -> PhonePool] : n \in 0..MaxSecondary}

\* p.normalizePhones(primary, secondary)
NormalizePhones ==
    /\ phoneCalls = <<>>
    /\ \E primary \in PrimaryPhones, secondary \in SecondaryPhones :
          phoneCalls' = <<[primary |-> primary, secondary |-> secondary,
                           output |-> normalizePhones(primary, secondary, DefaultRegion)]>>
    /\ UNCHANGED <<addressCalls, contactCalls, processCalls, scoreVars, socialVars, emailVars, runVars>>

(***************************************************************************)
(* validation.go: addresses                                                *)
(***************************************************************************)
AddressSeparators == {",", ";"}

\* completeness*1000 + lengthScore
addressScore(addr) == Len(FieldsFunc(addr, AddressSeparators)) * 1000 + Len(addr)

NoAddress == [best |-> <<>>, bestScore |-> 0]

\* a candidate with the score of the best one so far replaces it
KeepBetterOrEqual(addr, score, st) ==
    IF score >= st.bestScore THEN [best |-> addr, bestScore |-> score] ELSE st

\* "if score > bestScore { bestScore = score; best = addr }"
KeepBetter(addr, score, st) ==
    IF score > st.bestScore THEN [best |-> addr, bestScore |-> score] ELSE st

\* the body of the loop, for the trimmed candidate
ConsiderAddress(addr, st) ==
    IF addr = <<>> THEN st ELSE KeepBetter(addr, addressScore(addr), st)

RECURSIVE AddressLoop(_, _)
AddressLoop(addresses, st) ==
    IF addresses = <<>> THEN st
    ELSE AddressLoop(Tail(addresses), ConsiderAddress(TrimSpace(Head(addresses)), st))

selectBestAddress(addresses) == AddressLoop(addresses, NoAddress).best

\* an address of one segment and more than a thousand characters
LongLine == [i \in 1..1100 |-> "x"]
AddressPool == { <<"S","h","o","r","t">>, <<" ","a",","," ","b">>, <<"c",";"," ","d"," ">>, <<" "," ">>, <<",">>, LongLine }
AddressInputs == UNION {[1..n -> AddressPool] : n \in 0..MaxAddresses}

\* selectBestAddress(addresses)
SelectBestAddress ==
    /\ addressCalls = <<>>
    /\ \E addresses \in AddressInputs :
          addressCalls' = <<[input |-> addresses, output |-> selectBestAddress(addresses)]>>
    /\ UNCHANGED <<phoneCalls, contactCalls, processCalls, scoreVars, socialVars, emailVars, runVars>>

(***************************************************************************)
(* validation.go: the contact form                                         *)
(***************************************************************************)
\* The HTTP client of a DataProcessor, by what it answers to a HEAD and to
\* a GET request.
Clients == [head : HeadAnswers, get : GetAnswers]
Processors == [httpClient : Clients]

ContactSanitized(u) == IF u.err THEN <<>> ELSE UrlString(stripTracking(u))

ContactProbed(target, r) ==
    [value |-> IF r.ok THEN target ELSE <<>>, requests |-> r.requests]

ContactProbe(p, target) ==
    IF target = <<>> THEN [value |-> <<>>, requests |-> <<>>]
    ELSE ContactProbed(target, urlResolves(target, p.httpClient.head, p.httpClient.get))

\* the URL is probed the way a social link is
sanitizeContactFormProbes(p, raw) == ContactProbe(p, ContactSanitized(sanitizeURL(raw)))

\* the string returned, and the HTTP requests issued on p.httpClient
sanitizeContactForm(p, raw) ==
    [value |-> ContactSanitized(sanitizeURL(raw)), requests |-> <<>>]

ContactPool ==
    { <<"c","o","m","p","a","n","y",".","c","o","m","/","c","o","n","t","a","c","t","?","u","t","m","_","s","o","u","r","c","e","=","a","d","s">>,
      <<" ","h","t","t","p",":","/","/","E","x","a","m","p","l","e",".","C","O","M","/","c","?","b","=","2","&","U","T","M","_","M","e","d","i","u","m","=","x","&","a","=","1"," ">>,
      <<"h","t","t","p","s",":","/","/","x",".","i","o","/","f","?","u","t","m","_","s","o","u","r","c","e","=","%","z","z","&","i","d","=","1">>,
      <<"h","t","t","p","s",":","/","/","x",".","i","o","/","f","?","u","t","m","_","i","d","=","7","&","q","=","a",";","b">>,
      <<"f","t","p",":","/","/","f","i","l","e","s",".","x",".","i","o","/","f","o","r","m","#","t","o","p">>,
      <<"/","c","o","n","t","a","c","t">>,
      <<" "," ">> }

ContactCall(p, raw, r) ==
    [client |-> p.httpClient, raw |-> raw, output |-> r.value, requests |-> r.requests]

\* p.sanitizeContactForm(raw)
SanitizeContactForm ==
    /\ contactCalls = <<>>
    /\ \E p \in Processors, raw \in ContactPool :
          contactCalls' = <<ContactCall(p, raw, sanitizeContactForm(p, raw))>>
    /\ UNCHANGED <<phoneCalls, addressCalls, processCalls, scoreVars, socialVars, emailVars, runVars>>

\* q.sanitizeContactForm(raw), for the same raw and a DataProcessor q with
\* another HTTP client
SanitizeContactFormOtherClient ==
    /\ Len(contactCalls) = 1
    /\ \E q \in Processors :
          /\ q.httpClient # contactCalls[1].client
          /\ contactCalls' = Append(contactCalls,
                                    ContactCall(q, contactCalls[1].raw,
                                                sanitizeContactForm(q, contactCalls[1].raw)))
    /\ UNCHANGED <<phoneCalls, addressCalls, processCalls, scoreVars, socialVars, emailVars, runVars>>

(***************************************************************************)
(* No call of the cleaning functions has been made.                        *)
(***************************************************************************)
CleanIdle ==
    /\ phoneCalls = <<>>
    /\ addressCalls = <<>>
    /\ contactCalls = <<>>
    /\ processCalls = <<>>

(***************************************************************************)
(* validation.go: Process.  The whole call is one step.  validateSocials   *)
(* is computed here as a function of the input map, of the order in which  *)
(* the range visits its labels and of what hostMatchesAllowed answers for  *)
(* each candidate; the HTTP client answers every HEAD request alike and    *)
(* every GET request alike.                                                *)
(***************************************************************************)
NoSocials == [result |-> [pl \in Platforms |-> <<>>], used |-> {}, requests |-> <<>>,
              sources |-> [pl \in Platforms |-> <<>>]]

\* "result.set(platform, sanitized); used[platform] = struct{}{}; break";
\* sources remembers the candidate a slot was filled from
SocialTaken(platform, raw, r, st) ==
    [result   |-> set(st.result, platform, r.sanitized),
     used     |-> st.used \cup {platform},
     requests |-> st.requests \o r.requests,
     sources  |-> [st.sources EXCEPT ![platform] = raw]]

RECURSIVE SocialCandidatesLoop(_, _, _, _, _)
SocialCandidateTried(p, platform, candidates, matcher, st, r) ==
    IF r.ok THEN SocialTaken(platform, Head(candidates), r, st)
    ELSE SocialCandidatesLoop(p, platform, Tail(candidates), matcher,
                              [st EXCEPT !.requests = @ \o r.requests])

\* "for _, raw := range candidates"
SocialCandidatesLoop(p, platform, candidates, matcher, st) ==
    IF candidates = <<>> THEN st
    ELSE SocialCandidateTried(p, platform, candidates, matcher, st,
                              cleanSocialLink(platform, Head(candidates),
                                              matcher[Head(candidates)],
                                              p.httpClient.head, p.httpClient.get))

SocialLabel(p, platform, candidates, matcher, st) ==
    IF platform = "" \/ candidates = <<>> \/ platform \in st.used THEN st
    ELSE SocialCandidatesLoop(p, platform, candidates, matcher, st)

\* "for key, candidates := range socials", order being the order of the range
RECURSIVE SocialLabelsLoop(_, _, _, _, _)
SocialLabelsLoop(p, socials, order, matcher, st) ==
    IF order = <<>> THEN st
    ELSE SocialLabelsLoop(p, socials, Tail(order), matcher,
                          SocialLabel(p, canonicalSocialKey(Head(order)),
                                      socials[Head(order)], matcher, st))

validateSocials(p, socials, order, matcher) ==
    IF DOMAIN socials = {} THEN NoSocials
    ELSE SocialLabelsLoop(p, socials, order, matcher, NoSocials)

\* CleanedData{}
ZeroCleanedData ==
    [CompanyID |-> <<>>, Emails |-> <<>>, Phones |-> <<>>,
     Socials |-> [pl \in Platforms |-> <<>>], Address |-> <<>>, ContactFormURL |-> <<>>]

\* what a call returns, with the lookups and requests it made and the
\* candidates its social slots were filled from
ProcessFailed ==
    [err |-> TRUE, data |-> ZeroCleanedData, lookups |-> <<>>, requests |-> <<>>,
     sources |-> [pl \in Platforms |-> <<>>]]

\* a call in which a lookup or a request failed returns an error
ProcessedOrFailed(companyID, emails, phones, socials, address, contactForm) ==
    IF \/ \E i \in DOMAIN emails.lookups : emails.lookups[i].answer.err
       \/ \E i \in DOMAIN socials.requests : socials.requests[i].answer.err
    THEN ProcessFailed
    ELSE [err      |-> FALSE,
          data     |-> [CompanyID |-> companyID, Emails |-> emails.valid, Phones |-> phones,
                        Socials |-> socials.result, Address |-> address,
                        ContactFormURL |-> contactForm.value],
          lookups  |-> emails.lookups,
          requests |-> socials.requests \o contactForm.requests,
          sources  |-> socials.sources]

\* "return CleanedData{...}, nil"
Processed(companyID, emails, phones, socials, address, contactForm) ==
    [err      |-> FALSE,
     data     |-> [CompanyID |-> companyID, Emails |-> emails.valid, Phones |-> phones,
                   Socials |-> socials.result, Address |-> address,
                   ContactFormURL |-> contactForm.value],
     lookups  |-> emails.lookups,
     requests |-> socials.requests \o contactForm.requests,
     sources  |-> socials.sources]

\* the company identifier is tested as given, not trimmed
ProcessTrimmedUntested(p, companyID, input, env) ==
    IF input.CompanyID = <<>> THEN ProcessFailed
    ELSE Processed(companyID,
                   cleanEmails(p.dnsResolver, input.Emails, env.script),
                   normalizePhones(input.PrimaryPhone, input.SecondaryPhones, p.DefaultRegion),
                   validateSocials(p, input.SocialLinks, env.order, env.matcher),
                   selectBestAddress(input.Addresses),
                   sanitizeContactForm(p, input.ContactFormURL))

\* companyID: the trimmed identifier
ProcessTrimmed(p, companyID, input, env) ==
    IF companyID = <<>> THEN ProcessFailed
    ELSE Processed(companyID,
                   cleanEmails(p.dnsResolver, input.Emails, env.script),
                   normalizePhones(input.PrimaryPhone, input.SecondaryPhones, p.DefaultRegion),
                   validateSocials(p, input.SocialLinks, env.order, env.matcher),
                   selectBestAddress(input.Addresses),
                   sanitizeContactForm(p, input.ContactFormURL))

\* p.Process(ctx, input); env: what the environment decides during the call
\* (the resolver's answers, the order of the range over the map and the
\* answers of hostMatchesAllowed)
Process(p, input, env) == ProcessTrimmed(p, TrimSpace(input.CompanyID), input, env)

ProcessCompanyIDs == { <<" "," ">>, <<" ","1","2","3"," ">> }
ProcessEmails == { <<>>, <<<<"U","S","E","R","@","x",".","i","o">>, <<"c","@","y",".","i","o">>>> }
\* phones and addresses
ProcessContacts ==
    { [PrimaryPhone |-> <<>>, SecondaryPhones |-> <<>>, Addresses |-> <<>>],
      [PrimaryPhone |-> <<"4","1","5","5","5","5","1","2","3","4">>, SecondaryPhones |-> <<<<"+","1","4","1","5","5","5","5","1","2","3","4">>, <<"1","2","3","4","5">>>>,
       Addresses |-> <<<<"S","h","o","r","t">>, <<"1","2","3"," ","M","a","i","n"," ","S","t",","," ","S","p","r","i","n","g","f","i","e","l","d">>>>] }
ProcessSocialLinks ==
    { <<>>,
      (<<"l","i","n","k","e","d","i","n">> :> <<<<"h","t","t","p","s",":","/","/","w","w","w",".","l","i","n","k","e","d","i","n",".","c","o","m","/","c","o","m","p","a","n","y","/","t","e","s","t","?","u","t","m","_","m","e","d","i","u","m","=","f","e","e","d">>>>
          @@ <<" ","F","a","c","e","b","o","o","k","_","U","R","L">> :> <<<<"n","o","t","f","a","c","e","b","o","o","k",".","c","o","m","/","x">>,
                                    <<"h","t","t","p","s",":","/","/","f","a","c","e","b","o","o","k",".","c","o","m","/","p","?","r","e","f","=","1","&","U","T","M","_","I","D","=","2">>>>) }
ProcessContactForms ==
    { <<>>, <<"c","o","m","p","a","n","y",".","c","o","m","/","c","o","n","t","a","c","t","?","u","t","m","_","s","o","u","r","c","e","=","a","d","s">>, <<"h","t","t","p","s",":","/","/","x",".","i","o","/","f","?","u","t","m","_","s","o","u","r","c","e","=","%","z","z","&","i","d","=","1">> }

\* the RawEnrichedData values handed to Process
ProcessInputs ==
    {[CompanyID |-> id, Emails |-> emails, PrimaryPhone |-> contacts.PrimaryPhone,
      SecondaryPhones |-> contacts.SecondaryPhones, SocialLinks |-> socials,
      Addresses |-> contacts.Addresses, ContactFormURL |-> contactForm] :
        id \in ProcessCompanyIDs, emails \in ProcessEmails, contacts \in ProcessContacts,
        socials \in ProcessSocialLinks, contactForm \in ProcessContactForms}

\* the candidates of a map of social links
CandidatesOf(socials) == UNION {Range(socials[k]) : k \in DOMAIN socials}

\* what hostMatchesAllowed can answer for each candidate of the map
Matchers(socials) ==
    {f \in [CandidatesOf(socials) -> UNION {CandidateMatches(raw) : raw \in CandidatesOf(socials)}] :
        \A raw \in CandidatesOf(socials) : f[raw] \in CandidateMatches(raw)}

\* what the environment can decide during a call
ProcessEnvs(input) ==
    [script : Scripts(resolver), order : Orders(DOMAIN input.SocialLinks),
     matcher : Matchers(input.SocialLinks)]

\* the DataProcessor: its resolver is the one it was built with
ProcessorWith(client) ==
    [dnsResolver |-> resolver, httpClient |-> client, DefaultRegion |-> DefaultRegion]

\* p.Process(ctx, input)
ProcessCall ==
    /\ processCalls = <<>>
    /\ \E input \in ProcessInputs, client \in Clients :
          \E env \in ProcessEnvs(input) :
             processCalls' = <<[input |-> input, client |-> client,
                                result |-> Process(ProcessorWith(client), input, env)]>>
    /\ UNCHANGED <<phoneCalls, addressCalls, contactCalls, scoreVars, socialVars, emailVars, runVars>>

(***************************************************************************)
(* scoring.go: highQualityDomain, called on its own.                       *)
(***************************************************************************)
DomainPool ==
    { <<>>, <<" "," ">>, <<"h","t","t","p","s",":","/","/","e","x","a","m","p","l","e",".","c","o","m">>, <<"h","t","t","p",":","/","/","w","w","w",".","e","x","a","m","p","l","e",".","c","o",".","i","d">>,
      <<"m","y","b","r","a","n","d",".","w","o","r","d","p","r","e","s","s",".","c","o","m">>, <<"f","t","p",":","/","/","s","u","b","d","o","m","a","i","n",".","g","o","o","g","l","e","p","a","g","e","s",".","c","o","m">>, <<"W","o","r","d","P","r","e","s","s",".","c","o","m">>,
      <<"h","t","t","p","s",":","/","/","n","o","t","w","o","r","d","p","r","e","s","s",".","c","o","m","/","b","l","o","g">>, <<"w","w","w",".","l","o","c","a","l","h","o","s","t">>, <<"h","t","t","p",":","/","/","i","n","t","r","a","n","e","t">>,
      <<"w","w","w",".","c","o","m">>, <<"h","t","t","p","s",":","/","/","m","y","b","r","a","n","d",".","w","o","r","d","p","r","e","s","s",".","c","o","m",":","4","4","3">> }

\* highQualityDomain(raw)
HighQualityDomain ==
    /\ Len(domainCalls) < 2
    /\ \E raw \in DomainPool :
          domainCalls' = Append(domainCalls, [input |-> raw, output |-> highQualityDomain(raw)])
    /\ UNCHANGED <<scoreVars, socialVars, emailVars, cleanVars, limitVars, socialCalls, emailRuns, processRun>>

(***************************************************************************)
(* middleware/ratelimit.go and router/routes.go.  Register wraps each of   *)
(* three routes in a ScrapeRateLimiter of its own, all built from one      *)
(* RateLimitConfig.  A request runs the middleware step by step, so that   *)
(* requests overlap; the mutex makes limiter.Allow() one step.             *)
(***************************************************************************)
\* the routes registered with middlewarepkg.ScrapeRateLimiter(cfg.RateLimitScrape)
LimitedRoutes == {"/scrape", "/enrich", "/prompt-search"}

StatusTooManyRequests == 429

RateLimitConfigs == [Requests : 0..MaxRequests, Interval : {0, 1}]

\* "if cfg.Requests <= 0 || cfg.Interval <= 0": the middleware only calls next
Passthrough(cfg) == cfg.Requests <= 0 \/ cfg.Interval <= 0

\* rate.NewLimiter(rate.Every(perRequest), cfg.Requests): the bucket starts full
NewLimiter(cfg) == cfg.Requests

Arrivals == 1..MaxArrivals

\* a request the router has not seen yet
NoRequest == [pc |-> "none", path |-> "", allowed |-> FALSE, nextCalls |-> 0, status |-> 0]

\* "return next(c)": the handler of the route runs and answers
NextCalled(req) == [req EXCEPT !.pc = "done", !.nextCalls = @ + 1, !.status = StatusOK]

\* the path test of the middleware
PathTested(cfg, req) ==
    IF Passthrough(cfg) \/ req.path # "/scrape" THEN NextCalled(req)
    ELSE [req EXCEPT !.pc = "lock"]

\* a request for a route reaches the handler function of the middleware
Arrive ==
    /\ \E r \in Arrivals, path \in LimitedRoutes :
          /\ requests[r].pc = "none"
          /\ \A q \in Arrivals : q < r => requests[q].pc # "none"
          /\ requests' = [requests EXCEPT ![r] = PathTested(rateCfg, [@ EXCEPT !.path = path])]
    /\ UNCHANGED <<rateCfg, limiterTokens, mu, refilled, domainCalls, socialCalls, emailRuns, processRun,
                   scoreVars, socialVars, emailVars, cleanVars>>

\* mu.Lock()
Lock ==
    /\ \E r \in Arrivals :
          /\ requests[r].pc = "lock"
          /\ mu[requests[r].path] = 0
          /\ mu' = [mu EXCEPT ![requests[r].path] = r]
          /\ requests' = [requests EXCEPT ![r].pc = "allow"]
    /\ UNCHANGED <<rateCfg, limiterTokens, refilled, domainCalls, socialCalls, emailRuns, processRun,
                   scoreVars, socialVars, emailVars, cleanVars>>

\* every call is allowed and no token is taken
AllowedFree(left) == [allowed |-> TRUE, tokens |-> left]

\* limiter.Allow(): a token is taken if one is left
Allowed(left) ==
    IF left > 0 THEN [allowed |-> TRUE, tokens |-> left - 1]
    ELSE [allowed |-> FALSE, tokens |-> left]

\* "allowed := limiter.Allow()"
Allow ==
    /\ \E r \in Arrivals :
          /\ requests[r].pc = "allow"
          /\ limiterTokens' = [limiterTokens EXCEPT ![requests[r].path] = Allowed(@).tokens]
          /\ requests' = [requests EXCEPT
                             ![r].pc = "unlock",
                             ![r].allowed = Allowed(limiterTokens[requests[r].path]).allowed]
    /\ UNCHANGED <<rateCfg, mu, refilled, domainCalls, socialCalls, emailRuns, processRun,
                   scoreVars, socialVars, emailVars, cleanVars>>

\* mu.Unlock()
Unlock ==
    /\ \E r \in Arrivals :
          /\ requests[r].pc = "unlock"
          /\ mu' = [mu EXCEPT ![requests[r].path] = 0]
          /\ requests' = [requests EXCEPT ![r].pc = "respond"]
    /\ UNCHANGED <<rateCfg, limiterTokens, refilled, domainCalls, socialCalls, emailRuns, processRun,
                   scoreVars, socialVars, emailVars, cleanVars>>

\* "if !allowed { return c.JSON(http.StatusTooManyRequests, ...) }; return next(c)"
Responded(req) ==
    IF ~req.allowed THEN [req EXCEPT !.pc = "done", !.status = StatusTooManyRequests]
    ELSE NextCalled(req)

Respond ==
    /\ \E r \in Arrivals :
          /\ requests[r].pc = "respond"
          /\ requests' = [requests EXCEPT ![r] = Responded(@)]
    /\ UNCHANGED <<rateCfg, limiterTokens, mu, refilled, domainCalls, socialCalls, emailRuns, processRun,
                   scoreVars, socialVars, emailVars, cleanVars>>

\* perRequest has gone by: the limiter of a route gains a token, up to its burst
Refill ==
    /\ ~Passthrough(rateCfg)
    /\ \E route \in LimitedRoutes :
          /\ limiterTokens[route] < rateCfg.Requests
          /\ limiterTokens' = [limiterTokens EXCEPT ![route] = @ + 1]
    /\ refilled' = TRUE
    /\ UNCHANGED <<rateCfg, mu, requests, domainCalls, socialCalls, emailRuns, processRun,
                   scoreVars, socialVars, emailVars, cleanVars>>

\* no router is registered
LimitIdle ==
    /\ rateCfg = [Requests |-> 0, Interval |-> 0]
    /\ limiterTokens = [route \in LimitedRoutes |-> 0]
    /\ mu = [route \in LimitedRoutes |-> 0]
    /\ requests = [r \in Arrivals |-> NoRequest]
    /\ refilled = FALSE

(***************************************************************************)
(* validation.go: validateSocials called twice on one DataProcessor with   *)
(* one map.  The client answers a URL the same way in both calls; the      *)
(* order of the range over the map is Go's to choose in each call.         *)
(***************************************************************************)
SocialMaps ==
    { (<<"l","i","n","k","e","d","i","n">> :> <<<<"h","t","t","p","s",":","/","/","l","i","n","k","e","d","i","n",".","c","o","m","/","c","o","m","p","a","n","y","/","a">>>>
          @@ <<"l","i","n","k","e","d","i","n","_","u","r","l">> :> <<<<"h","t","t","p","s",":","/","/","w","w","w",".","l","i","n","k","e","d","i","n",".","c","o","m","/","i","n","/","b">>>>),
      (<<"l","i","n","k","e","d","i","n">> :> <<<<"h","t","t","p","s",":","/","/","l","i","n","k","e","d","i","n",".","c","o","m","/","c","o","m","p","a","n","y","/","a">>>>
          @@ <<"f","a","c","e","b","o","o","k">> :> <<<<"h","t","t","p","s",":","/","/","f","a","c","e","b","o","o","k",".","c","o","m","/","p">>>>),
      (<<"l","i","n","k","e","d","i","n">> :> <<<<"h","t","t","p","s",":","/","/","l","i","n","k","e","d","i","n",".","c","o","m","/","c","o","m","p","a","n","y","/","a">>, <<"h","t","t","p","s",":","/","/","w","w","w",".","l","i","n","k","e","d","i","n",".","c","o","m","/","i","n","/","b">>>>),
      <<>> }

SocialCall(p, socials, r) ==
    [client |-> p.httpClient, input |-> socials, output |-> r.result, requests |-> r.requests]

\* p.validateSocials(ctx, socials)
ValidateSocialsCall ==
    /\ socialCalls = <<>>
    /\ \E socials \in SocialMaps, client \in Clients :
          \E order \in Orders(DOMAIN socials), matcher \in Matchers(socials) :
             socialCalls' = <<SocialCall(ProcessorWith(client), socials,
                                         validateSocials(ProcessorWith(client), socials,
                                                         order, matcher))>>
    /\ UNCHANGED <<domainCalls, emailRuns, processRun, limitVars, scoreVars, socialVars, emailVars, cleanVars>>

\* p.validateSocials(ctx, socials) once more, on the same map
ValidateSocialsCallAgain ==
    /\ Len(socialCalls) = 1
    /\ \E order \in Orders(DOMAIN socialCalls[1].input),
          matcher \in Matchers(socialCalls[1].input) :
             socialCalls' = Append(socialCalls,
                 SocialCall(ProcessorWith(socialCalls[1].client), socialCalls[1].input,
                            validateSocials(ProcessorWith(socialCalls[1].client),
                                            socialCalls[1].input, order, matcher)))
    /\ UNCHANGED <<domainCalls, emailRuns, processRun, limitVars, scoreVars, socialVars, emailVars, cleanVars>>

(***************************************************************************)
(* validation.go: calls of cleanEmails in progress at once on one          *)
(* DataProcessor, each taking one candidate of its list per step.  seen,   *)
(* domainCache and valid are locals of the call.                           *)
(***************************************************************************)
EmailCalls == 1..MaxOverlap

OverlapInputs ==
    { <<>>, <<<<"a","@","x",".","i","o">>>>, <<<<"a","@","x",".","i","o">>, <<"B","@","x",".","i","o">>>>, <<<<"c","@","y",".","i","o">>, <<" ","A","@","X",".","i","o"," ">>>> }

NoRun == [pc |-> "none", input |-> <<>>, pos |-> 0, st |-> NewClean]

\* "if len(emails) == 0 { return nil }" and the three make(...)
StartedRun(input) ==
    [pc |-> IF input = <<>> THEN "done" ELSE "loop", input |-> input, pos |-> 0,
     st |-> NewClean]

\* what the resolver answers to the lookups of one step
StepScripts(p) ==
    IF p.kind = "flaky"
    THEN {[first |-> [d \in MailDomains |-> a], again |-> [d \in MailDomains |-> a]] :
             a \in MXAnswers}
    ELSE {[first |-> p.table, again |-> p.table]}

\* the calls read one cache: every call sees the verdicts of all of them
LocalsSharingCache(runs, c) ==
    [runs[c].st EXCEPT !.domainCache =
        [d \in UNION {DOMAIN runs[b].st.domainCache : b \in DOMAIN runs} |->
            IF d \in DOMAIN runs[c].st.domainCache THEN runs[c].st.domainCache[d]
            ELSE runs[CHOOSE b \in DOMAIN runs : d \in DOMAIN runs[b].st.domainCache]
                     .st.domainCache[d]]]

\* seen, domainCache and valid of call c
Locals(runs, c) == runs[c].st

\* the call after one more turn of its loop
SteppedRun(run, st) ==
    [run EXCEPT !.pos = @ + 1, !.st = st,
                !.pc = IF run.pos + 1 = Len(run.input) THEN "done" ELSE "loop"]

\* p.cleanEmails(ctx, input) is called
StartCleanEmails ==
    /\ \E c \in EmailCalls, input \in OverlapInputs :
          /\ emailRuns[c].pc = "none"
          /\ \A b \in EmailCalls : b < c => emailRuns[b].pc # "none"
          /\ emailRuns' = [emailRuns EXCEPT ![c] = StartedRun(input)]
    /\ UNCHANGED <<domainCalls, socialCalls, processRun, limitVars, scoreVars, socialVars, emailVars, cleanVars>>

\* one turn of "for _, raw := range emails" in one of the calls
StepCleanEmails ==
    /\ \E c \in EmailCalls, script \in StepScripts(resolver) :
          /\ emailRuns[c].pc = "loop"
          /\ emailRuns' = [emailRuns EXCEPT ![c] =
                SteppedRun(@, CleanOne(resolver, emailRuns[c].input[emailRuns[c].pos + 1],
                                       Locals(emailRuns, c), script))]
    /\ UNCHANGED <<domainCalls, socialCalls, processRun, limitVars, scoreVars, socialVars, emailVars, cleanVars>>

(***************************************************************************)
(* validation.go: one call of Process taken step by step, with the         *)
(* caller's context.  Once the context is cancelled every lookup and every *)
(* request made with it fails.  marks holds what had been done when the    *)
(* context was cancelled.                                                  *)
(***************************************************************************)
CancelInputs ==
    {[CompanyID |-> id, Emails |-> emails, PrimaryPhone |-> <<"4","1","5","5","5","5","1","2","3","4">>,
      SecondaryPhones |-> <<<<"+","1","4","1","5","5","5","5","1","2","3","4">>, <<"1","2","3","4","5">>>>, SocialLinks |-> socials,
      Addresses |-> <<<<"S","h","o","r","t">>, <<"1","2","3"," ","M","a","i","n"," ","S","t",","," ","S","p","r","i","n","g","f","i","e","l","d">>>>,
      ContactFormURL |-> <<"c","o","m","p","a","n","y",".","c","o","m","/","c","o","n","t","a","c","t","?","u","t","m","_","s","o","u","r","c","e","=","a","d","s">>] :
        id \in ProcessCompanyIDs, emails \in OverlapInputs, socials \in SocialMaps}

NoMarks == [valid |-> 0, lookups |-> 0, requests |-> 0, used |-> {}]

NoProcessRun ==
    [pc |-> "idle", input |-> <<>>, client |-> [head |-> TransportError, get |-> TransportError],
     ctxDone |-> FALSE, marks |-> NoMarks, pos |-> 0, emails |-> NewClean,
     order |-> <<>>, platform |-> "", candidates |-> <<>>, socials |-> NoSocials,
     result |-> ProcessFailed]

\* the resolver's answers to a lookup made with a cancelled context
CancelledScript ==
    [first |-> [d \in MailDomains |-> MXError], again |-> [d \in MailDomains |-> MXError]]

\* the client's answers to a request made with a cancelled context
CancelledClient == [head |-> TransportError, get |-> TransportError]

\* the lookup is made with a context of its own, which the caller cannot cancel
LookupContextDetached(run) == FALSE

\* "ctx, cancel := context.WithTimeout(ctx, 3*time.Second)": the context of
\* the lookup is done when the caller's is
LookupContext(run) == run.ctxDone

\* "http.NewRequestWithContext(ctx, ...)"
RequestContext(run) == run.ctxDone

LookupScripts(p, done) == IF done THEN {CancelledScript} ELSE StepScripts(p)
ClientUnder(client, done) == IF done THEN CancelledClient ELSE client

\* "companyID := strings.TrimSpace(input.CompanyID); if companyID == "" { return ... }"
ProcessEntered(input, client, order) ==
    IF TrimSpace(input.CompanyID) = <<>>
    THEN [NoProcessRun EXCEPT !.pc = "done", !.input = input, !.client = client]
    ELSE [NoProcessRun EXCEPT !.pc = "emails", !.input = input, !.client = client,
                              !.order = order]

\* p.Process(ctx, input) is called
EnterProcess ==
    /\ processRun.pc = "idle"
    /\ \E input \in CancelInputs, client \in Clients :
          \E order \in Orders(DOMAIN input.SocialLinks) :
             processRun' = ProcessEntered(input, client, order)
    /\ UNCHANGED <<domainCalls, socialCalls, emailRuns, limitVars, scoreVars, socialVars, emailVars, cleanVars>>

\* the caller cancels the context
CancelContext ==
    /\ processRun.pc \in {"emails", "labels", "candidates"}
    /\ ~processRun.ctxDone
    /\ processRun' = [processRun EXCEPT
          !.ctxDone = TRUE,
          !.marks = [valid    |-> Len(processRun.emails.valid),
                     lookups  |-> Len(processRun.emails.lookups),
                     requests |-> Len(processRun.socials.requests),
                     used     |-> processRun.socials.used]]
    /\ UNCHANGED <<domainCalls, socialCalls, emailRuns, limitVars, scoreVars, socialVars, emailVars, cleanVars>>

\* one turn of the loop of cleanEmails inside Process
ProcessEmail ==
    /\ processRun.pc = "emails"
    /\ processRun.pos < Len(processRun.input.Emails)
    /\ \E script \in LookupScripts(resolver, LookupContext(processRun)) :
          processRun' = [processRun EXCEPT
             !.pos = @ + 1,
             !.emails = CleanOne(resolver, processRun.input.Emails[processRun.pos + 1],
                                 processRun.emails, script)]
    /\ UNCHANGED <<domainCalls, socialCalls, emailRuns, limitVars, scoreVars, socialVars, emailVars, cleanVars>>

\* cleanEmails returns; "socials := p.validateSocials(ctx, input.SocialLinks)"
ProcessSocials ==
    /\ processRun.pc = "emails"
    /\ processRun.pos = Len(processRun.input.Emails)
    /\ processRun' = [processRun EXCEPT !.pc = "labels"]
    /\ UNCHANGED <<domainCalls, socialCalls, emailRuns, limitVars, scoreVars, socialVars, emailVars, cleanVars>>

\* "platform := canonicalSocialKey(key); if platform == "" || len(candidates) == 0
\*  { continue }; if _, exists := used[platform]; exists { continue }"
LabelEntered(run, key, platform) ==
    IF platform = "" \/ run.input.SocialLinks[key] = <<>> \/ platform \in run.socials.used
    THEN [run EXCEPT !.order = Tail(@)]
    ELSE [run EXCEPT !.order = Tail(@), !.pc = "candidates", !.platform = platform,
                     !.candidates = run.input.SocialLinks[key]]

\* one turn of "for key, candidates := range socials"
ProcessLabel ==
    /\ processRun.pc = "labels"
    /\ processRun.order # <<>>
    /\ processRun' = LabelEntered(processRun, Head(processRun.order),
                                  canonicalSocialKey(Head(processRun.order)))
    /\ UNCHANGED <<domainCalls, socialCalls, emailRuns, limitVars, scoreVars, socialVars, emailVars, cleanVars>>

\* "sanitized, ok := p.cleanSocialLink(ctx, platform, raw); if !ok { continue };
\*  result.set(platform, sanitized); used[platform] = struct{}{}; break"
CandidateTried(run, r) ==
    IF r.ok
    THEN [run EXCEPT !.pc = "labels", !.candidates = <<>>,
                     !.socials = SocialTaken(run.platform, Head(run.candidates), r, @)]
    ELSE [run EXCEPT !.pc = IF Tail(run.candidates) = <<>> THEN "labels" ELSE "candidates",
                     !.candidates = Tail(@),
                     !.socials = [@ EXCEPT !.requests = @ \o r.requests]]

ProbeUnder(run, match, client) ==
    cleanSocialLink(run.platform, Head(run.candidates), match, client.head, client.get)

\* one turn of "for _, raw := range candidates"
ProcessCandidate ==
    /\ processRun.pc = "candidates"
    /\ \E match \in CandidateMatches(Head(processRun.candidates)) :
          processRun' = CandidateTried(processRun,
                ProbeUnder(processRun, match,
                           ClientUnder(processRun.client, RequestContext(processRun))))
    /\ UNCHANGED <<domainCalls, socialCalls, emailRuns, limitVars, scoreVars, socialVars, emailVars, cleanVars>>

\* the rest of Process, none of which uses the context
ProcessReturned(run) ==
    Processed(TrimSpace(run.input.CompanyID), run.emails,
              normalizePhones(run.input.PrimaryPhone, run.input.SecondaryPhones, DefaultRegion),
              run.socials, selectBestAddress(run.input.Addresses),
              sanitizeContactForm(ProcessorWith(run.client), run.input.ContactFormURL))

\* validateSocials returns; "return CleanedData{...}, nil"
ReturnProcess ==
    /\ processRun.pc = "labels"
    /\ processRun.order = <<>>
    /\ processRun' = [processRun EXCEPT !.pc = "done", !.result = ProcessReturned(processRun)]
    /\ UNCHANGED <<domainCalls, socialCalls, emailRuns, limitVars, scoreVars, socialVars, emailVars, cleanVars>>

(***************************************************************************)
(* None of the runs above has started.                                     *)
(***************************************************************************)
RunIdle ==
    /\ domainCalls = <<>>
    /\ socialCalls = <<>>
    /\ emailRuns = [c \in EmailCalls |-> NoRun]
    /\ processRun = NoProcessRun
    /\ LimitIdle

(***************************************************************************)
(* The inputs of the scoring runs.                                         *)
(***************************************************************************)
ScoreEmails == { <<<<" "," "," ">> >>, <<<<"i","n","f","o","@","e","x","a","m","p","l","e",".","c","o","m">> >> }
ScorePhones == { <<>>, <<<<"+","1","2","3","4","5","6","7","8","9">> >> }
ScoreSocialKeys == { <<"l","i","n","k","e","d","i","n">>, <<"L","i","n","k","e","d","I","n">>, <<"i","n","s","t","a","g","r","a","m">>, <<"f","a","c","e","b","o","o","k">>,
                     <<"y","o","u","t","u","b","e">>, <<"t","i","k","t","o","k">> }
ScoreSocialValues == { <<" "," ">>, <<"x",".","c","o","/","a",",","x",".","c","o","/","a",";","y",".","c","o","|","z",".","c","o"," ","w",".","c","o","\t","v",".","c","o">> }
ScoreAddresses == { <<"J","l","."," ","M","e","r","d","e","k","a">>, <<"1","2","3"," ","M","a","i","n"," ","S","t",","," ","S","p","r","i","n","g","f","i","e","l","d">> }
ScoreWebsites == { <<>>, <<" ","H","T","T","P","S",":","/","/","A","c","m","e",".","c","o","m"," ">>, <<"h","t","t","p",":","/","/","s","h","o","p",".","w","o","r","d","p","r","e","s","s",".","c","o","m">> }

ScoreSocials ==
    UNION {[S -> ScoreSocialValues] :
              S \in {T \in SUBSET ScoreSocialKeys : Cardinality(T) <= MaxSocialKeys}}

LeadFeatures ==
    [Emails : ScoreEmails, Phones : ScorePhones, Socials : ScoreSocials,
     HasHTTPS : BOOLEAN, HasContactPage : BOOLEAN, HasAboutPage : BOOLEAN,
     HasContactForm : BOOLEAN, Address : ScoreAddresses, Website : ScoreWebsites]

\* no scoring run
ScoreIdle ==
    /\ features = [Emails |-> <<>>, Phones |-> <<>>, Socials |-> <<>>,
                   HasHTTPS |-> FALSE, HasContactPage |-> FALSE, HasAboutPage |-> FALSE,
                   HasContactForm |-> FALSE, Address |-> <<>>, Website |-> <<>>]
    /\ scoreResults = <<>>

InitScore ==
    /\ features \in LeadFeatures
    /\ scoreResults = <<>>
    /\ SocialIdle
    /\ EmailIdle
    /\ CleanIdle
    /\ RunIdle

\* one call of ComputeScore(features)
ComputeScoreCall ==
    /\ scoreResults = <<>>
    /\ \E order \in Orders(DOMAIN features.Socials) :
          scoreResults' = Append(scoreResults, ComputeScore(features, order))
    /\ UNCHANGED <<features, socialVars, emailVars, cleanVars, runVars>>

NextScore == ComputeScoreCall

SpecScore == InitScore /\ [][NextScore]_vars

InitSocial == SocialIdle /\ ScoreIdle /\ EmailIdle /\ CleanIdle /\ RunIdle

NextSocial ==
    \/ ValidateSocials
    \/ RangeSocialKey
    \/ TrySocialCandidate
    \/ ReturnSocials

SpecSocial == InitSocial /\ [][NextSocial]_vars

InitEmail ==
    /\ resolver \in Resolvers
    /\ emailCalls = <<>>
    /\ ScoreIdle
    /\ SocialIdle
    /\ CleanIdle
    /\ RunIdle

NextEmail ==
    \/ CleanEmails
    \/ CleanEmailsAgain

SpecEmail == InitEmail /\ [][NextEmail]_vars

NextEmailOrder ==
    \/ CleanEmailsFirst
    \/ CleanEmailsPermuted

SpecEmailOrder == InitEmail /\ [][NextEmailOrder]_vars

(***************************************************************************)
(* Properties of ComputeScore                                              *)
(***************************************************************************)
\* C1: whatever the LeadFeatures, the Total that ComputeScore returns lies
\* in 0..100 and is the sum of the four values of its Breakdown.
C1_TotalIsBoundedSum ==
    \A i \in DOMAIN scoreResults :
        /\ scoreResults[i].Total \in 0..100
        /\ DOMAIN scoreResults[i].Breakdown
              = {"contact_completeness", "website_quality", "social_presence",
                 "business_profile"}
        /\ scoreResults[i].Total
              = scoreResults[i].Breakdown["contact_completeness"]
                  + scoreResults[i].Breakdown["website_quality"]
                  + scoreResults[i].Breakdown["social_presence"]
                  + scoreResults[i].Breakdown["business_profile"]

\* a score to which each of the four categories contributes
C1_Witness ==
    /\ scoreResults # <<>>
    /\ \A c \in Categories : scoreResults[1].Breakdown[c] > 0
    /\ scoreResults[1].Total >= 80

\* C2: whatever the LeadFeatures, every category value is non-negative and
\* within its cap: contact completeness and website quality in 0..30,
\* social presence and business profile in 0..20.
C2_CategoriesWithinCaps ==
    \A i \in DOMAIN scoreResults :
        /\ scoreResults[i].Breakdown["contact_completeness"] \in 0..30
        /\ scoreResults[i].Breakdown["website_quality"] \in 0..30
        /\ scoreResults[i].Breakdown["social_presence"] \in 0..20
        /\ scoreResults[i].Breakdown["business_profile"] \in 0..20

\* a score whose website and business categories sit at their caps
C2_Witness ==
    /\ scoreResults # <<>>
    /\ scoreResults[1].Breakdown["website_quality"] = 30
    /\ scoreResults[1].Breakdown["business_profile"] = 20
    /\ scoreResults[1].Breakdown["social_presence"] = 0

(***************************************************************************)
(* Properties of the liveness probe and of validateSocials                 *)
(***************************************************************************)
Probed == lastProbe.requests # <<>>
HeadAnswer == lastProbe.requests[1].answer
\* the candidate of the latest probe fills the slot of its platform
Accepted == lastProbe.ok /\ socialLinks[lastProbe.platform] = lastProbe.requests[1].url

\* C3: the first request of a probe is a HEAD; when it answers 200 the
\* candidate is accepted and no GET is issued; when it answers 405 exactly
\* one GET is issued for the same URL and the candidate is accepted if and
\* only if that GET answers 200.
C3_HeadOkOrGetFallback ==
    Probed =>
        /\ lastProbe.requests[1].method = "HEAD"
        /\ (~HeadAnswer.err /\ HeadAnswer.StatusCode = 200)
              => Accepted /\ Len(lastProbe.requests) = 1
        /\ (~HeadAnswer.err /\ HeadAnswer.StatusCode = 405)
              => /\ Len(lastProbe.requests) = 2
                 /\ lastProbe.requests[2].method = "GET"
                 /\ lastProbe.requests[2].url = lastProbe.requests[1].url
                 /\ Accepted <=> (~lastProbe.requests[2].answer.err
                                    /\ lastProbe.requests[2].answer.StatusCode = 200)
                 /\ ~Accepted => socialLinks[lastProbe.platform] = <<>>

\* a candidate accepted through the GET fallback
C3_Witness ==
    /\ Probed
    /\ HeadAnswer = [err |-> FALSE, StatusCode |-> 405]
    /\ lastProbe.get = [err |-> FALSE, StatusCode |-> 200]
    /\ Accepted
    /\ Len(lastProbe.requests) = 2

\* C4: when the HEAD request answers a status other than 200 and 405, the
\* candidate is rejected and no GET is issued for it.
C4_OtherStatusRejectsWithoutGet ==
    (Probed /\ ~HeadAnswer.err /\ HeadAnswer.StatusCode \notin {200, 405})
        => /\ ~lastProbe.ok
           /\ socialLinks[lastProbe.platform] = <<>>
           /\ Len(lastProbe.requests) = 1
           /\ lastProbe.requests[1].method = "HEAD"

\* HEAD answers 404 while a GET would have answered 200
C4_Witness ==
    /\ Probed
    /\ HeadAnswer = [err |-> FALSE, StatusCode |-> 404]
    /\ lastProbe.get = [err |-> FALSE, StatusCode |-> 200]
    /\ ~lastProbe.ok

\* C5: when the HEAD request fails with a transport error, the candidate is
\* rejected and no GET is issued, whatever a GET would have answered, and
\* the loop goes on with the next candidate of the label.
C5_HeadErrorRejectsWithoutGet ==
    (Probed /\ HeadAnswer.err)
        => /\ ~lastProbe.ok
           /\ socialLinks[lastProbe.platform] = <<>>
           /\ Len(lastProbe.requests) = 1
           /\ lastProbe.remaining > 0 => cur.remaining = lastProbe.remaining

\* the host of a stored URL as DNS reads it: without port, case and final dot
C6_Lowered(host) == [i \in DOMAIN host |-> ToLowerChar(host[i])]
RECURSIVE C6_NoFinalDot(_)
C6_NoFinalDot(host) ==
    IF host # <<>> /\ host[Len(host)] = "."
    THEN C6_NoFinalDot(SubSeq(host, 1, Len(host) - 1))
    ELSE host
C6_Host(url) == C6_NoFinalDot(C6_Lowered(Hostname(UrlParse(url))))

\* h is d, or a name under d
C6_SameOrUnder(h, d) ==
    \E k \in 0..(Len(h) - Len(d)) :
        /\ SubSeq(h, k + 1, Len(h)) = d
        /\ k = 0 \/ h[k] = "."

C6_DomainsOf(platform) ==
    CASE platform = "linkedin"  -> {<<"l","i","n","k","e","d","i","n",".","c","o","m">>}
      [] platform = "facebook"  -> {<<"f","a","c","e","b","o","o","k",".","c","o","m">>}
      [] platform = "instagram" -> {<<"i","n","s","t","a","g","r","a","m",".","c","o","m">>}
      [] platform = "youtube"   -> {<<"y","o","u","t","u","b","e",".","c","o","m">>, <<"y","o","u","t","u",".","b","e">>}
      [] platform = "tiktok"    -> {<<"t","i","k","t","o","k",".","c","o","m">>}
      [] OTHER -> {}

C6_Belongs(url, platform) ==
    \E d \in C6_DomainsOf(platform) : C6_SameOrUnder(C6_Host(url), d)

C6_RawUrl(raw) ==
    IF Contains(TrimSpace(raw), <<":","/","/">>) THEN TrimSpace(raw) ELSE <<"h","t","t","p","s",":","/","/">> \o TrimSpace(raw)

\* C6: every populated slot of the SocialLinks holds an https URL whose host
\* (as a DNS name) is, or lies under, a root domain of that slot's platform;
\* a candidate whose host is outside the platform's allow-list does not
\* fill the slot, whatever the HTTP client answers for it.
C6_SlotsHoldAllowedHosts ==
    /\ \A p \in Platforms :
          socialLinks[p] # <<>>
              => /\ UrlParse(socialLinks[p]).Scheme = <<"h","t","t","p","s">>
                 /\ C6_Belongs(socialLinks[p], p)
    /\ (lastProbe.platform # "" /\ ~C6_Belongs(C6_RawUrl(lastProbe.raw), lastProbe.platform))
          => ~lastProbe.ok /\ socialLinks[lastProbe.platform] = <<>>

\* a look-alike host offered for linkedin answers 200 and leaves the slot
\* empty, while the facebook slot holds its URL
C6_Witness ==
    /\ lastProbe.platform = "linkedin"
    /\ lastProbe.raw = <<"n","o","t","l","i","n","k","e","d","i","n",".","c","o","m","/","a">>
    /\ lastProbe.head = [err |-> FALSE, StatusCode |-> 200]
    /\ socialLinks["linkedin"] = <<>>
    /\ socialLinks["facebook"] = <<"h","t","t","p","s",":","/","/","f","a","c","e","b","o","o","k",".","c","o","m","/","p">>
    /\ socialPc = "done"

(* Properties of cleanEmails                                               *)
(***************************************************************************)
EmailNorm(raw) == ToLower(TrimSpace(raw))
\* the place of the first input candidate whose normal form is email
EmailFirst(input, email) ==
    CHOOSE i \in DOMAIN input :
        /\ EmailNorm(input[i]) = email
        /\ \A j \in 1..(i - 1) : EmailNorm(input[j]) # email
EmailDomain(email) == Cut(email, <<"@">>).after
\* the candidate is an address that reaches the MX test
EmailWellFormed(raw) ==
    /\ emailPattern(EmailNorm(raw))
    /\ isDomainValid(EmailDomain(EmailNorm(raw)))
    /\ ~ToASCII(EmailDomain(EmailNorm(raw))).err
MXFound(answer) == ~answer.err /\ answer.records > 0

\* C7: the list cleanEmails returns has no two equal entries, each entry is
\* the trimmed lower-cased form of an input candidate, and the entries stand
\* in the order of the first occurrence of their address in the input, so an
\* address given twice or in two letter cases is returned once.
C7_DedupedNormalizedInOrder ==
    \A c \in DOMAIN emailCalls :
        /\ \A i, j \in DOMAIN emailCalls[c].output :
              i # j => emailCalls[c].output[i] # emailCalls[c].output[j]
        /\ \A i \in DOMAIN emailCalls[c].output :
              \E k \in DOMAIN emailCalls[c].input :
                  emailCalls[c].output[i] = EmailNorm(emailCalls[c].input[k])
        /\ \A i, j \in DOMAIN emailCalls[c].output :
              i < j => EmailFirst(emailCalls[c].input, emailCalls[c].output[i])
                          < EmailFirst(emailCalls[c].input, emailCalls[c].output[j])

\* an address given in two letter cases after another one is returned once,
\* behind the other one
C7_Witness ==
    /\ emailCalls # <<>>
    /\ emailCalls[1].input = <<<<"c","@","y",".","i","o">>, <<" ","A","@","x",".","i","o">>, <<"a","@","x",".","i","o">>>>
    /\ emailCalls[1].output = <<<<"c","@","y",".","i","o">>, <<"a","@","x",".","i","o">>>>

\* C8: under a resolver that answers a domain the same way every time,
\* cleanEmails applied to the list it returned gives that list back.
C8_Idempotent ==
    (resolver.kind # "flaky" /\ Len(emailCalls) = 2 /\ emailCalls[2].kind = "again")
        => /\ emailCalls[2].input = emailCalls[1].output
           /\ emailCalls[2].output = emailCalls[1].output

\* the second call is given, and gives back, a list of two addresses that
\* the first call got out of three candidates
C8_Witness ==
    /\ resolver.kind = "stable"
    /\ Len(emailCalls) = 2
    /\ emailCalls[2].kind = "again"
    /\ Len(emailCalls[1].input) = 3
    /\ emailCalls[1].output = <<<<"b","@","x",".","i","o">>, <<"a","@","x",".","i","o">>>>
    /\ emailCalls[2].output = <<<<"b","@","x",".","i","o">>, <<"a","@","x",".","i","o">>>>

\* C9 as stated: for every input list and every rearrangement of it the two
\* calls return the same set of addresses, whatever the resolver answers
\* during the two calls.
C9_OrderIndependentAnyResolver ==
    (Len(emailCalls) = 2 /\ emailCalls[2].kind = "permuted")
        => Range(emailCalls[2].output) = Range(emailCalls[1].output)

\* C9, for a resolver that answers a domain the same way every time: for
\* every input list and every rearrangement of it the two calls return the
\* same set of addresses.
C9_OrderIndependentStableResolver ==
    (resolver.kind # "flaky" /\ Len(emailCalls) = 2 /\ emailCalls[2].kind = "permuted")
        => Range(emailCalls[2].output) = Range(emailCalls[1].output)

\* a list and a true rearrangement of it give the same two addresses in
\* another order
C9_Witness ==
    /\ resolver.kind = "stable"
    /\ Len(emailCalls) = 2
    /\ emailCalls[2].kind = "permuted"
    /\ emailCalls[1].input = <<<<"A","@","x",".","i","o">>, <<"c","@","y",".","i","o">>, <<"a","@","x",".","i","o">>>>
    /\ emailCalls[2].input = <<<<"c","@","y",".","i","o">>, <<"a","@","x",".","i","o">>, <<"A","@","x",".","i","o">>>>
    /\ emailCalls[1].output = <<<<"a","@","x",".","i","o">>, <<"c","@","y",".","i","o">>>>
    /\ emailCalls[2].output = <<<<"c","@","y",".","i","o">>, <<"a","@","x",".","i","o">>>>

\* C10: every address a call returns has a domain whose MX lookup in that
\* call returned no error and at least one record; the addresses of a domain
\* whose lookup failed with an error are dropped, and the well-formed
\* addresses of the domains whose lookup found records are all returned.
C10_ReturnedHaveMXOthersSurvive ==
    \A c \in DOMAIN emailCalls :
        /\ \A i \in DOMAIN emailCalls[c].output :
              \E l \in DOMAIN emailCalls[c].lookups :
                  /\ emailCalls[c].lookups[l].domain = EmailDomain(emailCalls[c].output[i])
                  /\ MXFound(emailCalls[c].lookups[l].answer)
        /\ \A k \in DOMAIN emailCalls[c].input, l \in DOMAIN emailCalls[c].lookups :
              (/\ EmailWellFormed(emailCalls[c].input[k])
               /\ emailCalls[c].lookups[l].domain
                     = EmailDomain(EmailNorm(emailCalls[c].input[k])))
                  => /\ emailCalls[c].lookups[l].answer.err
                           => EmailNorm(emailCalls[c].input[k]) \notin Range(emailCalls[c].output)
                     /\ MXFound(emailCalls[c].lookups[l].answer)
                           => EmailNorm(emailCalls[c].input[k]) \in Range(emailCalls[c].output)

\* the lookup of x.io fails, the one of y.io finds a record: the address of
\* x.io is dropped and the one of y.io, which comes after it, is returned
C10_Witness ==
    /\ emailCalls # <<>>
    /\ emailCalls[1].input = <<<<"a","@","x",".","i","o">>, <<"c","@","y",".","i","o">>>>
    /\ emailCalls[1].lookups = <<[domain |-> <<"x",".","i","o">>, answer |-> MXError],
                                 [domain |-> <<"y",".","i","o">>, answer |-> MXRecords(1)]>>
    /\ emailCalls[1].output = <<<<"c","@","y",".","i","o">>>>

InitClean ==
    /\ CleanIdle
    /\ RunIdle
    /\ ScoreIdle
    /\ SocialIdle
    /\ EmailIdle

NextPhone == NormalizePhones
SpecPhone == InitClean /\ [][NextPhone]_vars

NextAddress == SelectBestAddress
SpecAddress == InitClean /\ [][NextAddress]_vars

NextContact ==
    \/ SanitizeContactForm
    \/ SanitizeContactFormOtherClient

SpecContact == InitClean /\ [][NextContact]_vars

\* Within one call a resolver whose answers vary gives every combination of
\* answers that a resolver with fixed answers can give.
InitProcess ==
    /\ resolver \in {r \in Resolvers : r.kind # "stable"}
    /\ emailCalls = <<>>
    /\ CleanIdle
    /\ RunIdle
    /\ ScoreIdle
    /\ SocialIdle

NextProcess == ProcessCall
SpecProcess == InitProcess /\ [][NextProcess]_vars

(***************************************************************************)
(* Properties of normalizePhones                                           *)
(***************************************************************************)
\* the candidates of a call, the primary phone before the secondary ones
PhonesGiven(call) == <<call.primary>> \o call.secondary
PhoneCanon(raw) == normalizePhone(raw, DefaultRegion)
\* the place of the first candidate whose canonical form is phone
PhoneFirst(given, phone) ==
    CHOOSE k \in DOMAIN given :
        /\ PhoneCanon(given[k]) = phone
        /\ \A j \in 1..(k - 1) : PhoneCanon(given[j]) # phone

\* C11: normalizePhones returns the canonical forms of the accepted
\* candidates, each once, in the order in which they are first seen with the
\* primary phone taken before the secondary ones; a blank, unparseable or
\* invalid candidate contributes nothing.
C11_CanonicalDedupedInOrder ==
    \A c \in DOMAIN phoneCalls :
        /\ \A i, j \in DOMAIN phoneCalls[c].output :
              i # j => phoneCalls[c].output[i] # phoneCalls[c].output[j]
        /\ \A i \in DOMAIN phoneCalls[c].output :
              /\ phoneCalls[c].output[i] # <<>>
              /\ \E k \in DOMAIN PhonesGiven(phoneCalls[c]) :
                    phoneCalls[c].output[i] = PhoneCanon(PhonesGiven(phoneCalls[c])[k])
        /\ \A k \in DOMAIN PhonesGiven(phoneCalls[c]) :
              PhoneCanon(PhonesGiven(phoneCalls[c])[k]) # <<>>
                  => PhoneCanon(PhonesGiven(phoneCalls[c])[k]) \in Range(phoneCalls[c].output)
        /\ \A i, j \in DOMAIN phoneCalls[c].output :
              i < j => PhoneFirst(PhonesGiven(phoneCalls[c]), phoneCalls[c].output[i])
                          < PhoneFirst(PhonesGiven(phoneCalls[c]), phoneCalls[c].output[j])

\* a primary and a secondary phone render to the same canonical string and
\* yield one entry, behind which an invalid secondary adds nothing
C11_Witness ==
    /\ phoneCalls # <<>>
    /\ phoneCalls[1].primary = <<" ","(","4","1","5",")"," ","5","5","5","-","1","2","3","4"," ">>
    /\ phoneCalls[1].secondary = <<<<"+","1","4","1","5","5","5","5","1","2","3","4">>, <<"1","2","3","4","5">>>>
    /\ phoneCalls[1].output = <<<<"+","1","4","1","5","5","5","5","1","2","3","4">>>>

(***************************************************************************)
(* Properties of selectBestAddress                                         *)
(***************************************************************************)
\* the number of segments of an address: its maximal runs of characters
\* other than comma and semicolon
AddressSegments(addr) ==
    Cardinality({i \in DOMAIN addr :
                    /\ addr[i] \notin {",", ";"}
                    /\ i = 1 \/ addr[i - 1] \in {",", ";"}})
AddressRank(addr) == AddressSegments(addr) * 1000 + Len(addr)
\* the places of the candidates that are not blank
NonBlank(input) == {k \in DOMAIN input : TrimSpace(input[k]) # <<>>}

\* C12: selectBestAddress returns the trimmed non-blank candidate whose
\* score, segments times 1000 plus length, is the greatest, the earliest one
\* when several share it, and the empty string when every candidate is blank.
C12_EarliestOfGreatestScore ==
    \A c \in DOMAIN addressCalls :
        IF NonBlank(addressCalls[c].input) = {}
        THEN addressCalls[c].output = <<>>
        ELSE \E k \in NonBlank(addressCalls[c].input) :
                /\ addressCalls[c].output = TrimSpace(addressCalls[c].input[k])
                /\ \A j \in NonBlank(addressCalls[c].input) :
                      /\ AddressRank(TrimSpace(addressCalls[c].input[j]))
                            <= AddressRank(addressCalls[c].output)
                      /\ j < k => AddressRank(TrimSpace(addressCalls[c].input[j]))
                                     < AddressRank(addressCalls[c].output)

\* two candidates share the greatest score behind a lesser one, and the
\* earlier of the two is returned
C12_Witness ==
    /\ addressCalls # <<>>
    /\ addressCalls[1].input = <<<<"S","h","o","r","t">>, <<"c",";"," ","d"," ">>, <<" ","a",","," ","b">>>>
    /\ addressCalls[1].output = <<"c",";"," ","d">>

\* C13: of two non-blank candidates of which one has more segments than the
\* other, the one with fewer segments is never the address returned,
\* whatever the lengths of the two.
C13_FewerSegmentsNeverReturned ==
    \A c \in DOMAIN addressCalls :
        \A i, j \in NonBlank(addressCalls[c].input) :
            AddressSegments(TrimSpace(addressCalls[c].input[i]))
                  > AddressSegments(TrimSpace(addressCalls[c].input[j]))
                => addressCalls[c].output # TrimSpace(addressCalls[c].input[j])

(***************************************************************************)
(* Properties of sanitizeContactForm                                       *)
(***************************************************************************)
\* the host of the input, read with the default scheme when it has none
ContactHost(raw) ==
    UrlParse(IF Contains(TrimSpace(raw), <<":","/","/">>) THEN TrimSpace(raw)
             ELSE <<"h","t","t","p","s",":","/","/">> \o TrimSpace(raw)).Host

\* C17: sanitizeContactForm issues no HTTP request; its result is the empty
\* string for an empty or unparseable input and otherwise an https URL with
\* the host of the input, and it is the same whatever the HTTP client of the
\* DataProcessor answers.
C17_NoProbeNoAllowList ==
    /\ \A c \in DOMAIN contactCalls :
          /\ contactCalls[c].requests = <<>>
          /\ contactCalls[c].output = <<>>
                <=> (TrimSpace(contactCalls[c].raw) = <<>>
                        \/ ContactHost(contactCalls[c].raw) = <<>>)
          /\ contactCalls[c].output # <<>>
                => /\ UrlParse(contactCalls[c].output).Scheme = <<"h","t","t","p","s">>
                   /\ UrlParse(contactCalls[c].output).Host = ContactHost(contactCalls[c].raw)
    /\ \A c, d \in DOMAIN contactCalls :
          contactCalls[c].raw = contactCalls[d].raw
              => contactCalls[c].output = contactCalls[d].output

\* a host outside every allow-list is kept, under https, by a DataProcessor
\* whose client fails every request and by one whose client answers 404
C17_Witness ==
    /\ Len(contactCalls) = 2
    /\ contactCalls[1].raw = <<"f","t","p",":","/","/","f","i","l","e","s",".","x",".","i","o","/","f","o","r","m","#","t","o","p">>
    /\ contactCalls[1].client = [head |-> TransportError, get |-> TransportError]
    /\ contactCalls[2].client = [head |-> Response(StatusNotFound), get |-> Response(StatusNotFound)]
    /\ contactCalls[1].output = <<"h","t","t","p","s",":","/","/","f","i","l","e","s",".","x",".","i","o","/","f","o","r","m","#","t","o","p">>
    /\ contactCalls[2].output = <<"h","t","t","p","s",":","/","/","f","i","l","e","s",".","x",".","i","o","/","f","o","r","m","#","t","o","p">>


(***************************************************************************)
(* Properties of Process                                                   *)
(***************************************************************************)
\* C14: Process returns an error if and only if the company identifier is
\* empty after trimming; it then returns the zero CleanedData and makes no
\* DNS lookup and no HTTP request.
C14_ErrorIffBlankCompanyID ==
    \A c \in DOMAIN processCalls :
        /\ processCalls[c].result.err <=> TrimSpace(processCalls[c].input.CompanyID) = <<>>
        /\ processCalls[c].result.err
              => /\ processCalls[c].result.data = ZeroCleanedData
                 /\ processCalls[c].result.lookups = <<>>
                 /\ processCalls[c].result.requests = <<>>

\* a blank identifier comes with e-mail addresses, social links and a
\* contact form, and the call fails before any of them is looked at
C14_Witness ==
    /\ processCalls # <<>>
    /\ resolver.kind = "flaky"
    /\ processCalls[1].input.CompanyID = <<" "," ">>
    /\ processCalls[1].input.Emails # <<>>
    /\ DOMAIN processCalls[1].input.SocialLinks # {}
    /\ processCalls[1].input.ContactFormURL # <<>>
    /\ processCalls[1].result = ProcessFailed

\* the e-mail addresses given, as cleanEmails stores them
EmailsGiven(input) == {ToLower(TrimSpace(input.Emails[i])) : i \in DOMAIN input.Emails}

\* the addresses given, trimmed
AddressesGiven(input) == {TrimSpace(input.Addresses[i]) : i \in DOMAIN input.Addresses}

\* C15: for a non-blank company identifier Process returns no error and a
\* CleanedData with the trimmed identifier, whatever the resolver and the
\* HTTP client answer; every field holds nothing but what its candidates
\* gave, and may be empty.
C15_NeverFailsOnCandidates ==
    \A c \in DOMAIN processCalls :
        TrimSpace(processCalls[c].input.CompanyID) # <<>>
            => /\ ~processCalls[c].result.err
               /\ processCalls[c].result.data.CompanyID
                     = TrimSpace(processCalls[c].input.CompanyID)
               /\ Range(processCalls[c].result.data.Emails) \subseteq EmailsGiven(processCalls[c].input)
               /\ Len(processCalls[c].result.data.Emails) <= Len(processCalls[c].input.Emails)
               /\ Len(processCalls[c].result.data.Phones)
                     <= 1 + Len(processCalls[c].input.SecondaryPhones)
               /\ \A pl \in Platforms :
                     processCalls[c].result.data.Socials[pl] # <<>>
                         => processCalls[c].result.sources[pl]
                               \in CandidatesOf(processCalls[c].input.SocialLinks)
               /\ processCalls[c].result.data.Address
                     \in {<<>>} \cup AddressesGiven(processCalls[c].input)
               /\ processCalls[c].result.data.ContactFormURL # <<>>
                     => TrimSpace(processCalls[c].input.ContactFormURL) # <<>>

\* every lookup and every request of the call fails, the e-mail addresses and
\* the social links come out empty, and the call returns no error
C15_Witness ==
    /\ processCalls # <<>>
    /\ processCalls[1].input.CompanyID = <<" ","1","2","3"," ">>
    /\ processCalls[1].result.lookups # <<>>
    /\ \A i \in DOMAIN processCalls[1].result.lookups :
          processCalls[1].result.lookups[i].answer.err
    /\ processCalls[1].result.requests # <<>>
    /\ \A i \in DOMAIN processCalls[1].result.requests :
          processCalls[1].result.requests[i].answer.err
    /\ processCalls[1].input.Emails # <<>>
    /\ processCalls[1].result.data.Emails = <<>>
    /\ processCalls[1].result.data.Socials = [pl \in Platforms |-> <<>>]
    /\ processCalls[1].result.data.CompanyID = <<"1","2","3">>
    /\ ~processCalls[1].result.err

\* the query parameters written in a URL: the segments of its query between
\* "&", each read as a key and a value at its first "="; a key or a value is
\* read unescaped where its escapes are well formed and as written otherwise
WrittenText(s) == IF QueryUnescape(s).err THEN s ELSE QueryUnescape(s).value

WrittenParameter(c) == [key |-> WrittenText(c.before), value |-> WrittenText(c.after)]

WrittenParameters(raw) ==
    {WrittenParameter(Cut(seg, <<"=">>)) :
        seg \in Range(Split(UrlParse(TrimSpace(raw)).RawQuery, <<"&">>)) \ {<<>>}}

\* out has the parameters of raw but those whose key starts with utm_
TrackingStripped(raw, out) ==
    WrittenParameters(out) = {kv \in WrittenParameters(raw) : ~IsTracking(kv)}

\* C16: every social URL and every contact-form URL that Process returns has
\* no query parameter whose key starts, whatever its case, with utm_, and has
\* every other query parameter of the candidate it came from, with its values.
C16_TrackingParametersStripped ==
    \A c \in DOMAIN processCalls :
        /\ \A pl \in Platforms :
              processCalls[c].result.data.Socials[pl] # <<>>
                  => TrackingStripped(processCalls[c].result.sources[pl],
                                      processCalls[c].result.data.Socials[pl])
        /\ processCalls[c].result.data.ContactFormURL # <<>>
              => TrackingStripped(processCalls[c].input.ContactFormURL,
                                  processCalls[c].result.data.ContactFormURL)

(***************************************************************************)
(* Properties of the categories of ComputeScore                            *)
(***************************************************************************)
SocialDelimiters == {",", ";", "|", " ", "\n", "\t", "\r"}

\* the tokens of a stored value: its longest runs of characters that are
\* not delimiters
TokenAt(value, i, j) ==
    /\ i <= j
    /\ \A k \in i..j : value[k] \notin SocialDelimiters
    /\ i = 1 \/ value[i - 1] \in SocialDelimiters
    /\ j = Len(value) \/ value[j + 1] \in SocialDelimiters

TokensOf(value) ==
    {Slice(value, ij[1], ij[2]) :
        ij \in {p \in (DOMAIN value) \X (DOMAIN value) : TokenAt(value, p[1], p[2])}}

\* the tokens of every platform's value, each once
DistinctTokens(socials) == UNION {TokensOf(socials[k]) : k \in DOMAIN socials}

\* C18: contact_completeness is 10 for a non-blank email, plus 10 for a
\* non-blank phone, plus min(10, D), D being the number of distinct tokens
\* of the social values split on comma, semicolon, pipe and whitespace; a
\* token that occurs several times counts once.
C18_ContactCountsDistinctTokens ==
    \A i \in DOMAIN scoreResults :
        scoreResults[i].Breakdown["contact_completeness"]
            = (IF \E e \in DOMAIN features.Emails : TrimSpace(features.Emails[e]) # <<>>
               THEN 10 ELSE 0)
              + (IF \E p \in DOMAIN features.Phones : TrimSpace(features.Phones[p]) # <<>>
                 THEN 10 ELSE 0)
              + (IF Cardinality(DistinctTokens(features.Socials)) < 10
                 THEN Cardinality(DistinctTokens(features.Socials)) ELSE 10)

\* the platforms for which some key of the map, trimmed and lower-cased,
\* names the platform and has a non-blank value
Recorded(socials, platform) ==
    \E k \in DOMAIN socials :
        ToLower(TrimSpace(k)) = platform /\ TrimSpace(socials[k]) # <<>>

\* C19: social_presence is 0 when no platform is recorded and otherwise 5
\* for a non-blank linkedin, 5 for instagram, 5 for facebook and 5 when
\* youtube or tiktok or both are non-blank, the keys being compared trimmed
\* and lower-cased.
C19_SocialPresenceByPlatform ==
    \A i \in DOMAIN scoreResults :
        scoreResults[i].Breakdown["social_presence"]
            = IF DOMAIN features.Socials = {} THEN 0
              ELSE (IF Recorded(features.Socials, <<"l","i","n","k","e","d","i","n">>) THEN 5 ELSE 0)
                     + (IF Recorded(features.Socials, <<"i","n","s","t","a","g","r","a","m">>) THEN 5 ELSE 0)
                     + (IF Recorded(features.Socials, <<"f","a","c","e","b","o","o","k">>) THEN 5 ELSE 0)
                     + (IF Recorded(features.Socials, <<"y","o","u","t","u","b","e">>)
                           \/ Recorded(features.Socials, <<"t","i","k","t","o","k">>) THEN 5 ELSE 0)

\* HTTPS is confirmed by the flag or by a website that, trimmed, starts
\* with https:// in any case
HTTPSConfirmed(f) ==
    \/ f.HasHTTPS
    \/ /\ Len(TrimSpace(f.Website)) >= 8
       /\ ToLower(SubSeq(TrimSpace(f.Website), 1, 8)) = <<"h","t","t","p","s",":","/","/">>

\* C20: website_quality is 10 when HTTPS is confirmed, plus 10 for
\* HasContactPage, plus 5 for HasAboutPage, plus 5 for HasContactForm, and is
\* decided by these fields alone.
C20_WebsiteQualityFromFlags ==
    \A i \in DOMAIN scoreResults :
        scoreResults[i].Breakdown["website_quality"]
            = (IF HTTPSConfirmed(features) THEN 10 ELSE 0)
                + (IF features.HasContactPage THEN 10 ELSE 0)
                + (IF features.HasAboutPage THEN 5 ELSE 0)
                + (IF features.HasContactForm THEN 5 ELSE 0)

\* HTTPS is confirmed by the website alone, written in capitals between
\* spaces, and the about page adds its 5
C20_Witness ==
    /\ scoreResults # <<>>
    /\ ~features.HasHTTPS
    /\ features.Website = <<" ","H","T","T","P","S",":","/","/","A","c","m","e",".","c","o","m"," ">>
    /\ features.HasAboutPage
    /\ ~features.HasContactPage
    /\ ~features.HasContactForm
    /\ features.Emails = <<<<"i","n","f","o","@","e","x","a","m","p","l","e",".","c","o","m">>>>
    /\ DOMAIN features.Socials # {}
    /\ scoreResults[1].Breakdown["website_quality"] = 15

InitRun ==
    /\ RunIdle
    /\ CleanIdle
    /\ ScoreIdle
    /\ SocialIdle
    /\ EmailIdle

NextDomain == HighQualityDomain
SpecDomain == InitRun /\ [][NextDomain]_vars

(***************************************************************************)
(* scoring.go: ComputeScore called twice on one LeadFeatures value.  Only  *)
(* the range over the Socials map can differ between the two calls.        *)
(***************************************************************************)
LeadFeaturesBySocials ==
    [Emails : {<<<<"i","n","f","o","@","e","x","a","m","p","l","e",".","c","o","m">>>>}, Phones : {<<>>}, Socials : ScoreSocials,
     HasHTTPS : BOOLEAN, HasContactPage : {TRUE}, HasAboutPage : {FALSE},
     HasContactForm : {FALSE}, Address : {<<"1","2","3"," ","M","a","i","n"," ","S","t",","," ","S","p","r","i","n","g","f","i","e","l","d">>},
     Website : {<<"h","t","t","p",":","/","/","s","h","o","p",".","w","o","r","d","p","r","e","s","s",".","c","o","m">>}]

\* a second call of ComputeScore(features)
ComputeScoreAgain ==
    /\ Len(scoreResults) = 1
    /\ \E order \in Orders(DOMAIN features.Socials) :
          scoreResults' = Append(scoreResults, ComputeScore(features, order))
    /\ UNCHANGED <<features, socialVars, emailVars, cleanVars, runVars>>

InitScoreTwice ==
    /\ features \in LeadFeaturesBySocials
    /\ scoreResults = <<>>
    /\ SocialIdle
    /\ EmailIdle
    /\ CleanIdle
    /\ RunIdle

NextScoreTwice ==
    \/ ComputeScoreCall
    \/ ComputeScoreAgain

SpecScoreTwice == InitScoreTwice /\ [][NextScoreTwice]_vars

\* router.Register(e, cfg, ...): every limiter starts with a full bucket
InitLimit ==
    /\ rateCfg \in RateLimitConfigs
    /\ limiterTokens = [route \in LimitedRoutes |-> NewLimiter(rateCfg)]
    /\ mu = [route \in LimitedRoutes |-> 0]
    /\ requests = [r \in Arrivals |-> NoRequest]
    /\ refilled = FALSE
    /\ domainCalls = <<>>
    /\ socialCalls = <<>>
    /\ emailRuns = [c \in EmailCalls |-> NoRun]
    /\ processRun = NoProcessRun
    /\ CleanIdle
    /\ ScoreIdle
    /\ SocialIdle
    /\ EmailIdle

NextLimit ==
    \/ Arrive
    \/ Lock
    \/ Allow
    \/ Unlock
    \/ Respond
    \/ Refill

SpecLimit == InitLimit /\ [][NextLimit]_vars

NextSocialTwice ==
    \/ ValidateSocialsCall
    \/ ValidateSocialsCallAgain

SpecSocialTwice == InitRun /\ [][NextSocialTwice]_vars

\* the DataProcessor has a resolver whose answers vary, or none
InitOverlap ==
    /\ resolver \in {r \in Resolvers : r.kind # "stable"}
    /\ emailCalls = <<>>
    /\ RunIdle
    /\ CleanIdle
    /\ ScoreIdle
    /\ SocialIdle

NextOverlap ==
    \/ StartCleanEmails
    \/ StepCleanEmails

SpecOverlap == InitOverlap /\ [][NextOverlap]_vars

NextCancel ==
    \/ EnterProcess
    \/ CancelContext
    \/ ProcessEmail
    \/ ProcessSocials
    \/ ProcessLabel
    \/ ProcessCandidate
    \/ ReturnProcess

SpecCancel == InitOverlap /\ [][NextCancel]_vars


(***************************************************************************)
(* Properties of highQualityDomain                                         *)
(***************************************************************************)
\* the host of a website: the host name of its URL without the port, in
\* lower case, read with the default scheme when it has none
WebsiteHost(raw) ==
    Hostname(UrlParse(IF Contains(ToLower(TrimSpace(raw)), <<":","/","/">>)
                      THEN ToLower(TrimSpace(raw))
                      ELSE <<"h","t","t","p","s",":","/","/">> \o ToLower(TrimSpace(raw))))

\* host is a free-hosting domain or a subdomain of one
FreeHosted(host) ==
    \E i \in DOMAIN freeHostingDomains :
        \/ host = freeHostingDomains[i]
        \/ /\ Len(host) > Len(freeHostingDomains[i])
           /\ SubSeq(host, Len(host) - Len(freeHostingDomains[i]), Len(host))
                 = <<".">> \o freeHostingDomains[i]

\* C21: highQualityDomain is false for an empty website, for a host that is
\* a free-hosting domain or a subdomain of one, and for a host without a dot
\* once a leading www. is removed; it is true for every other host.
C21_HighQualityUnlessFreeOrDotless ==
    \A c \in DOMAIN domainCalls :
        domainCalls[c].output
            <=> /\ TrimSpace(domainCalls[c].input) # <<>>
                /\ ~FreeHosted(WebsiteHost(domainCalls[c].input))
                /\ \E i \in DOMAIN TrimPrefix(WebsiteHost(domainCalls[c].input), <<"w","w","w",".">>) :
                      TrimPrefix(WebsiteHost(domainCalls[c].input), <<"w","w","w",".">>)[i] = "."

(***************************************************************************)
(* Properties of repeated calls                                            *)
(***************************************************************************)
\* C22: two evaluations of ComputeScore on the same LeadFeatures return the
\* same Total and the same Breakdown, also when several keys of Socials
\* are equal once trimmed and lower-cased.
C22_ComputeScoreDeterministic ==
    \A i, j \in DOMAIN scoreResults :
        /\ scoreResults[i].Total = scoreResults[j].Total
        /\ scoreResults[i].Breakdown = scoreResults[j].Breakdown


(***************************************************************************)
(* Properties of ScrapeRateLimiter                                         *)
(***************************************************************************)
\* the requests for a route that reached the handler behind the middleware
Passed(route) == {r \in Arrivals : requests[r].path = route /\ requests[r].nextCalls > 0}

\* the requests for a route that were refused
Refused(route) ==
    {r \in Arrivals : /\ requests[r].path = route
                      /\ requests[r].pc = "done"
                      /\ requests[r].status = StatusTooManyRequests}

\* the requests for a route that have been answered
Answered(route) == {r \in Arrivals : requests[r].path = route /\ requests[r].pc = "done"}

\* C23: with a limiter for N > 0 requests per interval, of the requests for
\* /scrape that arrive before a token is refilled, one after the other or
\* overlapping, at most N reach the next handler; each of the others is
\* answered 429 and the next handler is not called for it.
C23_AtMostNScrapesPass ==
    (rateCfg.Requests > 0 /\ rateCfg.Interval > 0 /\ ~refilled)
        => /\ Cardinality(Passed("/scrape")) <= rateCfg.Requests
           /\ \A r \in Answered("/scrape") :
                 /\ requests[r].nextCalls <= 1
                 /\ requests[r].nextCalls = 0 <=> r \in Refused("/scrape")
           /\ Refused("/scrape") # {}
                 => Cardinality({r \in Arrivals : /\ requests[r].path = "/scrape"
                                                  /\ requests[r].allowed})
                       = rateCfg.Requests

\* three requests for /scrape under a limit of two: one is refused while
\* another, admitted, has not yet reached the handler
C23_Witness ==
    /\ rateCfg = [Requests |-> 2, Interval |-> 1]
    /\ ~refilled
    /\ \A r \in 1..3 : requests[r].path = "/scrape"
    /\ requests[1].pc = "done" /\ requests[1].nextCalls = 1
    /\ requests[2].pc = "done" /\ requests[2].status = StatusTooManyRequests
    /\ requests[2].nextCalls = 0
    /\ requests[3].pc = "respond" /\ requests[3].allowed

\* C30: each route registered with the ScrapeRateLimiter middleware,
\* /scrape, /enrich and /prompt-search, is under the configured limit: once
\* the tokens of its limiter are used up, a further request for the route is
\* answered 429 and does not reach its handler.
C30_RegisteredRoutesLimited ==
    (rateCfg.Requests > 0 /\ rateCfg.Interval > 0 /\ ~refilled)
        => \A route \in LimitedRoutes :
              /\ Cardinality(Passed(route)) <= rateCfg.Requests
              /\ \A r \in Answered(route) :
                    requests[r].nextCalls = 0 <=> r \in Refused(route)

(***************************************************************************)
(* Properties of the MX memoization                                        *)
(***************************************************************************)
\* the ASCII domain of a candidate that reaches the MX test
AsciiDomain(raw) == ToASCII(EmailDomain(EmailNorm(raw))).value

\* C24: within one call of cleanEmails the MX lookup is made at most once
\* for each ASCII domain, and every candidate of the domain gets the verdict
\* of that one lookup, even though the resolver would answer otherwise if it
\* were asked again.
C24_OneLookupPerDomain ==
    \A c \in DOMAIN emailCalls :
        /\ \A i, j \in DOMAIN emailCalls[c].lookups :
              i # j => emailCalls[c].lookups[i].domain # emailCalls[c].lookups[j].domain
        /\ resolver.kind # "nil"
              => \A k \in DOMAIN emailCalls[c].input :
                    EmailWellFormed(emailCalls[c].input[k])
                        => \E i \in DOMAIN emailCalls[c].lookups :
                              /\ emailCalls[c].lookups[i].domain
                                    = AsciiDomain(emailCalls[c].input[k])
                              /\ EmailNorm(emailCalls[c].input[k]) \in Range(emailCalls[c].output)
                                    <=> MXFound(emailCalls[c].lookups[i].answer)

\* two addresses of one domain are both returned on a single lookup by a
\* resolver that would have refused the domain the second time
C24_Witness ==
    /\ resolver.kind = "flaky"
    /\ emailCalls # <<>>
    /\ emailCalls[1].input = <<<<"a","@","x",".","i","o">>, <<"c","@","y",".","i","o">>, <<"b","@","x",".","i","o">>>>
    /\ emailCalls[1].output = <<<<"a","@","x",".","i","o">>, <<"b","@","x",".","i","o">>>>
    /\ Len(emailCalls[1].lookups) = 2
    /\ emailCalls[1].lookups[1] = [domain |-> <<"x",".","i","o">>, answer |-> MXRecords(1)]

(***************************************************************************)
(* Properties of one call of validateSocials                               *)
(***************************************************************************)
\* C25: once a candidate has been verified for a platform, validateSocials
\* issues no further HTTP request for that platform in the same call,
\* neither for the later candidates of the label nor for the candidates of
\* another label of the same platform.
C25_NoRequestAfterVerified ==
    [][(lastProbe' # lastProbe /\ lastProbe'.requests # <<>>)
          => lastProbe'.platform \notin used]_vars

\* the first of two candidates of linkedin is verified, the second is left
\* alone, and the label LinkedIn_URL, met afterwards, is skipped
C25_Witness ==
    /\ used = {"linkedin"}
    /\ {<<"l","i","n","k","e","d","i","n">>, <<" ","L","i","n","k","e","d","I","n","_","U","R","L">>} \subseteq visited
    /\ cur = NoLabel
    /\ lastProbe.platform = "linkedin"
    /\ lastProbe.ok
    /\ lastProbe.remaining = 1

\* the latest probe holds a request for url that was answered 200
ProbedOK(probe, url) ==
    \E i \in DOMAIN probe.requests :
        /\ probe.requests[i].url = url
        /\ ~probe.requests[i].answer.err
        /\ probe.requests[i].answer.StatusCode = StatusOK

\* C28: a URL is stored in a slot of the SocialLinks only as the URL, forced
\* to https and passed through stripTracking, of a candidate for which a
\* request issued in the same call was answered 200: no URL that was not
\* probed and none that differs from the probed one is stored.
C28_StoredWasProbedOK ==
    [][\A pl \in Platforms :
          (socialLinks'[pl] # socialLinks[pl])
              => /\ lastProbe'.platform = pl
                 /\ lastProbe' # lastProbe
                 /\ socialLinks'[pl] = lastProbe'.sanitized
                 /\ socialLinks'[pl]
                       = UrlString(stripTracking(sanitizeURL(lastProbe'.raw)))
                 /\ UrlParse(socialLinks'[pl]).Scheme = <<"h","t","t","p","s">>
                 /\ ProbedOK(lastProbe', socialLinks'[pl])
                 /\ \A i \in DOMAIN lastProbe'.requests :
                       lastProbe'.requests[i].url = socialLinks'[pl]]_vars

\* a candidate given with http and a tracking parameter is stored as the
\* https URL without it, which a GET answered 200 after the HEAD had failed
C28_Witness ==
    /\ socialLinks["linkedin"] = <<"h","t","t","p","s",":","/","/","W","W","W",".","L","i","n","k","e","d","I","n",".","c","o","m",".","/","b","?","i","d","=","1">>
    /\ lastProbe.raw = <<"h","t","t","p",":","/","/","W","W","W",".","L","i","n","k","e","d","I","n",".","c","o","m",".","/","b","?","u","t","m","_","s","o","u","r","c","e","=","x","&","i","d","=","1">>
    /\ Len(lastProbe.requests) = 2
    /\ lastProbe.requests[1].answer.err
    /\ lastProbe.requests[2] = Request("GET", <<"h","t","t","p","s",":","/","/","W","W","W",".","L","i","n","k","e","d","I","n",".","c","o","m",".","/","b","?","i","d","=","1">>,
                                       Response(StatusOK))

\* C29: for the same map and the same HTTP outcome for each URL,
\* validateSocials returns the same SocialLinks every time, also when two
\* labels of the map canonicalize to one platform and each offers a URL of
\* its own that verifies.
C29_ValidateSocialsDeterministic ==
    \A c, d \in DOMAIN socialCalls : socialCalls[c].output = socialCalls[d].output

(***************************************************************************)
(* Properties of overlapping calls of cleanEmails                          *)
(***************************************************************************)
\* C26: the MX cache belongs to one call of cleanEmails: a verdict obtained
\* in one call on a DataProcessor is never used by another call on it,
\* whether the calls follow each other or overlap, and each call makes its
\* own lookup for each domain it meets.
C26_CachePrivateToCall ==
    resolver.kind # "nil"
        => \A c \in EmailCalls :
              \A k \in 1..emailRuns[c].pos :
                  EmailWellFormed(emailRuns[c].input[k])
                      => \E i \in DOMAIN emailRuns[c].st.lookups :
                            /\ emailRuns[c].st.lookups[i].domain
                                  = AsciiDomain(emailRuns[c].input[k])
                            /\ EmailNorm(emailRuns[c].input[k]) \in Range(emailRuns[c].st.valid)
                                  <=> MXFound(emailRuns[c].st.lookups[i].answer)

\* the second call has looked up x.io itself and was refused, while the
\* first call, half way through its list, holds a good verdict for x.io
C26_Witness ==
    /\ resolver.kind = "flaky"
    /\ emailRuns[1].pc = "loop"
    /\ emailRuns[1].input = <<<<"a","@","x",".","i","o">>, <<"B","@","x",".","i","o">>>>
    /\ emailRuns[1].pos = 1
    /\ emailRuns[1].st.valid = <<<<"a","@","x",".","i","o">>>>
    /\ emailRuns[2].pc = "done"
    /\ emailRuns[2].input = <<<<"a","@","x",".","i","o">>>>
    /\ emailRuns[2].st.valid = <<>>
    /\ emailRuns[2].st.lookups = <<[domain |-> <<"x",".","i","o">>, answer |-> MXError]>>

(***************************************************************************)
(* Properties of Process under a cancelled context                         *)
(***************************************************************************)
\* Process has returned and its context was cancelled on the way
CancelledRun == processRun.pc = "done" /\ processRun.ctxDone

\* the places of the returned addresses that were added after the cancellation
LateEmails == (processRun.marks.valid + 1)..Len(processRun.result.data.Emails)

\* no social slot was filled after the cancellation, and the call did not fail
LateSocialsLeftOut ==
    /\ \A pl \in Platforms :
          processRun.result.data.Socials[pl] # <<>> => pl \in processRun.marks.used
    /\ ~processRun.result.err
    /\ processRun.result.data.Emails = processRun.emails.valid
    /\ \A pl \in Platforms : processRun.result.data.Socials[pl] = processRun.socials.result[pl]

\* C27 as stated: when the context is cancelled while Process runs and the
\* resolver and the client fail every call made with the cancelled context,
\* no address and no social URL examined after the cancellation is in the
\* result, and Process returns the partial result without an error.
C27_NothingExaminedLateIncluded ==
    CancelledRun => LateEmails = {} /\ LateSocialsLeftOut

\* the domain was looked up before the cancellation and had MX records
VerifiedBefore(domain) ==
    \E j \in 1..processRun.marks.lookups :
        /\ processRun.result.lookups[j].domain = domain
        /\ MXFound(processRun.result.lookups[j].answer)

\* C27, amended: under the same conditions no address whose domain had not
\* been found to have MX records before the cancellation, and no social URL
\* examined after the cancellation, is in the result, and Process returns
\* the partial result without an error.
C27_OnlyVerifiedDomainsIncludedLate ==
    CancelledRun
        => /\ \A i \in LateEmails :
                 VerifiedBefore(AsciiDomain(processRun.result.data.Emails[i]))
           /\ \A j \in DOMAIN processRun.result.lookups :
                 j > processRun.marks.lookups => ~MXFound(processRun.result.lookups[j].answer)
           /\ LateSocialsLeftOut

\* the context is cancelled after a@x.io was accepted: B@x.io is accepted
\* afterwards on the cached verdict, c@y.io would need a lookup and is
\* left out, and the linkedin candidate probed afterwards is left out
C27_Witness ==
    /\ CancelledRun
    /\ processRun.input.Emails = <<<<"a","@","x",".","i","o">>, <<"B","@","x",".","i","o">>>>
    /\ processRun.marks.valid = 1
    /\ processRun.result.data.Emails = <<<<"a","@","x",".","i","o">>, <<"b","@","x",".","i","o">>>>
    /\ processRun.client.head = Response(StatusOK)
    /\ processRun.marks.requests = 0
    /\ processRun.result.requests # <<>>
    /\ \A pl \in Platforms : processRun.result.data.Socials[pl] = <<>>

=============================================================================
